---- MODULE Spec2Model ----
(***************************************************************************)
(* The code generation and review workflow of backend/review_workflow.py,  *)
(* as driven by backend/server.py, over the key-value store and the model  *)
(* calls of backend/llm_services.py.                                       *)
(*                                                                         *)
(* One background task runs per submitted request.  A coroutine step is    *)
(* the awaited operation together with the synchronous code that follows   *)
(* it up to the next await: pc names the await a task is suspended at.     *)
(* Scores are floats in [0, 1] in the code and tenths (0..10) here.        *)
(* uuid4 ids are drawn from one counter; 0 stands for None.                *)
(***************************************************************************)
EXTENDS Integers, Sequences, FiniteSets, TLC

\* ------------------------------------------------------------- constants

AllRequests == {"r1", "r2"}
Critics     == {1, 2}

PENDING    == "pending"
GENERATING == "generating"
REVIEWING  == "reviewing"
REFINING   == "refining"
COMPLETED  == "completed"
FAILED     == "failed"
GenerationStatus == {PENDING, GENERATING, REVIEWING, REFINING, COMPLETED, FAILED}

DefaultMaxIterations == 3
LowScore             == 3
RankFailScore        == 1
MaxScore             == 10

RankErrorMarker == "Error during ranking"
ErrorSentinel   == "# Error generating code"
RankAnalysis    == "analysis"

\* Outcomes of a ranking call that returned: (critic1_score, critic2_score).
ScorePairs == {<<2, 1>>, <<2, 3>>, <<3, 2>>, <<6, 7>>}

\* How many model calls and how many store operations may fail in one run.
MaxModelFaults == 2
MaxStoreFaults == 2
\* How many generator calls may answer with an empty code block in one run.
MaxEmptyCodes == 1
\* Last second of the clock, and how many calls of _wait_for_gemini_rate_limit
\* are made, in a run of the rate limiter on its own.
MaxTime  == 14
MaxCalls == 3
\* Largest iteration count given to the stopping policy on its own.
MaxIterArg == 4

None == 0

VARIABLES
    clients,         \* the requests that clients submit in this run
    request_id,      \* per task: the id of the request it was started with
    requests,        \* store, request:{id}
    sessions,        \* store, session:{id}
    codes,           \* store, code:{id}
    reviews,         \* store, review:{id}
    rankings,        \* store, ranking:{id}
    uuid,            \* ids handed out so far
    pc,              \* per task: the await it is suspended at
    session,         \* per task: the local CodeGenerationSession
    request,         \* per task: the local CodeGenerationRequest (current_request)
    generated_code,  \* per task: the local GeneratedCode of the iteration
    current_code,    \* per task: the GeneratedCode _refine_code read back
    refine_ranking,  \* per task: the ReviewRanking _refine_code read back
    refine_review,   \* per task and critic: the CriticReview _refine_code read back
    ranking,         \* per task: the local ReviewRanking of the iteration
    kpc,             \* per task and critic: position of the _get_critic_review branch
    kreview,         \* per task and critic: the branch's CriticReview
    emptyCodes,      \* generator calls that answered an empty code block so far
    modelFaults,     \* model calls failed so far
    storeFaults,     \* store operations failed so far
    now,             \* time.time(), in seconds
    gemini_last_request_time,  \* LLMService.gemini_last_request_time
    waiting,         \* per task: where its call of _wait_for_gemini_rate_limit is
    released,        \* the times at which _wait_for_gemini_rate_limit returned
    arg,             \* input of the function under test
    ret              \* its result

storeVars == <<requests, sessions, codes, reviews, rankings>>
refineVars == <<refine_ranking, refine_review>>
taskVars  == <<pc, session, request, generated_code, current_code, refineVars, ranking>>
critVars  == <<kpc, kreview>>
rateVars  == <<now, gemini_last_request_time, waiting, released>>
envVars   == <<clients, request_id, emptyCodes, modelFaults, storeFaults, rateVars>>
funVars   == <<arg, ret>>
vars == <<storeVars, uuid, taskVars, critVars, envVars, funVars>>

\* --------------------------------------------------------------- records

\* redis.setex(key, 86400, value) on one kind of record
Put(f, k, v) == [x \in (DOMAIN f) \cup {k} |-> IF x = k THEN v ELSE f[x]]

NoSession ==
    [id |-> None, request_id |-> "", current_code_id |-> None,
     critic1_review_id |-> None, critic2_review_id |-> None, ranking_id |-> None,
     refinement_iterations |-> 0, max_iterations |-> DefaultMaxIterations,
     status |-> PENDING]

\* CodeGenerationSession(request_id=..., status=...)
NewSession(id, rid, st) == [NoSession EXCEPT !.id = id, !.request_id = rid, !.status = st]

\* CodeGenerationRequest as generate_code builds it: its session_id is a uuid of
\* its own, the key of no session record.
NewRequest == [status |-> PENDING, session_id |-> None]

NoCode    == [id |-> None, request_id |-> "", session_id |-> None, version |-> 0,
              generated_code |-> "", error |-> FALSE]
NoReview  == [id |-> None, session_id |-> None, code_id |-> None, critic_type |-> 0, error |-> FALSE]
NoRanking == [id |-> None, session_id |-> None, code_id |-> None,
              critic1_review_id |-> None, critic2_review_id |-> None,
              ranking_explanation |-> RankAnalysis,
              critic1_score |-> 0, critic2_score |-> 0]

\* "Error during ranking" in ranking_explanation
HasRankError(r) == r.ranking_explanation = RankErrorMarker

\* ------------------------------------------------------- stopping policy

\* the bound compared with > where the code has >=
should_stop_late(rk, s) ==
    IF s.refinement_iterations > s.max_iterations - 1 THEN TRUE
    ELSE IF HasRankError(rk) THEN TRUE
    ELSE IF rk.critic1_score < LowScore /\ rk.critic2_score < LowScore THEN TRUE
    ELSE FALSE

\* the iteration bound alone
should_stop_bound_only(rk, s) ==
    s.refinement_iterations >= s.max_iterations - 1

\* the scores compared with <= where the code has <
should_stop_inclusive(rk, s) ==
    IF s.refinement_iterations >= s.max_iterations - 1 THEN TRUE
    ELSE IF HasRankError(rk) THEN TRUE
    ELSE IF rk.critic1_score <= LowScore /\ rk.critic2_score <= LowScore THEN TRUE
    ELSE FALSE

\* the bound or the marker alone: low scores never stop
should_stop_scoreless(rk, s) ==
    IF s.refinement_iterations >= s.max_iterations - 1 THEN TRUE
    ELSE IF HasRankError(rk) THEN TRUE
    ELSE FALSE

\* the bound reached one iteration early
should_stop_early(rk, s) ==
    IF s.refinement_iterations >= s.max_iterations - 2 THEN TRUE
    ELSE IF HasRankError(rk) THEN TRUE
    ELSE IF rk.critic1_score < LowScore /\ rk.critic2_score < LowScore THEN TRUE
    ELSE FALSE

\* _should_stop_refinement(ranking, session)
should_stop_refinement(rk, s) ==
    IF s.refinement_iterations >= s.max_iterations - 1 THEN TRUE
    ELSE IF HasRankError(rk) THEN TRUE
    ELSE IF rk.critic1_score < LowScore /\ rk.critic2_score < LowScore THEN TRUE
    ELSE FALSE

\* ----------------------------------------------------------------- init

\* Seconds between two requests to Gemini.
gemini_min_interval == 6

\* LLMService.__init__: no request made yet.  The clock reads seconds since
\* the epoch: the first call is more than the interval after time 0.
LLMService_init ==
    /\ now = gemini_min_interval
    /\ gemini_last_request_time = 0
    /\ waiting = [r \in AllRequests |-> [at |-> "idle", until |-> 0]]
    /\ released = <<>>

InitWorkflow ==
    /\ requests = <<>>
    /\ sessions = <<>>
    /\ codes = <<>>
    /\ reviews = <<>>
    /\ rankings = <<>>
    /\ uuid = 0
    /\ pc = [r \in AllRequests |-> "idle"]
    /\ session = [r \in AllRequests |-> NoSession]
    /\ request = [r \in AllRequests |-> NewRequest]
    /\ generated_code = [r \in AllRequests |-> NoCode]
    /\ current_code = [r \in AllRequests |-> NoCode]
    /\ refine_ranking = [r \in AllRequests |-> NoRanking]
    /\ refine_review = [r \in AllRequests |-> [c \in Critics |-> NoReview]]
    /\ ranking = [r \in AllRequests |-> NoRanking]
    /\ kpc = [r \in AllRequests |-> [c \in Critics |-> "idle"]]
    /\ kreview = [r \in AllRequests |-> [c \in Critics |-> NoReview]]
    /\ request_id = [r \in AllRequests |-> r]
    /\ LLMService_init
    /\ emptyCodes = MaxEmptyCodes
    /\ modelFaults = 0
    /\ storeFaults = 0

NoFun == [f |-> "none"]

Init ==
    /\ InitWorkflow
    /\ clients = {"r1"}
    /\ arg = NoFun
    /\ ret = NoFun

\* ------------------------------------------------------------ the server

SetPc(r, p) == pc' = [pc EXCEPT ![r] = p]

\* POST /generate-code: the request is stored and its background task added.
\* A store failure answers 500 and adds no task.
generate_code(r) ==
    /\ r \in clients
    /\ pc[r] = "idle"
    /\ \/ /\ requests' = Put(requests, request_id[r], NewRequest)
          /\ SetPc(r, "w_get")
          /\ UNCHANGED storeFaults
       \/ /\ storeFaults < MaxStoreFaults
          /\ storeFaults' = storeFaults + 1
          /\ SetPc(r, "rejected")
          /\ UNCHANGED requests
    /\ UNCHANGED <<sessions, codes, reviews, rankings, uuid, session, request,
                   generated_code, current_code, refineVars, ranking, critVars, clients, request_id, emptyCodes, rateVars,
                   modelFaults, funVars>>

\* start_generation_workflow reads the request back; when it is pending it calls
\* start_generation, which runs up to its first await (the session's setex).
start_generation_workflow(r) ==
    /\ pc[r] = "w_get"
    /\ IF request_id[r] \notin DOMAIN requests
          \/ requests[request_id[r]].status # PENDING
       THEN /\ SetPc(r, "returned")
            /\ UNCHANGED <<uuid, session, request>>
       ELSE /\ uuid' = uuid + 1
            /\ session' = [session EXCEPT ![r] = NewSession(uuid + 1, request_id[r], GENERATING)]
            /\ request' = [request EXCEPT ![r] =
                             [requests[request_id[r]] EXCEPT !.status = GENERATING,
                                                 !.session_id = uuid + 1]]
            /\ SetPc(r, "s_set_session")
    /\ UNCHANGED <<storeVars, generated_code, current_code, refineVars, ranking, critVars,
                   envVars, funVars>>

\* ------------------------------------------------- writes of the session

\* redis.setex(f"session:{session.id}", 86400, to_json(session.dict()))
SetexSession(r, at, next) ==
    /\ pc[r] = at
    /\ sessions' = Put(sessions, session[r].id, session[r])
    /\ SetPc(r, next)
    /\ UNCHANGED <<requests, codes, reviews, rankings, uuid, session, request,
                   generated_code, current_code, refineVars, ranking, critVars, envVars, funVars>>

\* redis.setex(f"request:{request.id}", 86400, to_json(request.dict()))
SetexRequest(r) == requests' = Put(requests, request_id[r], request[r])

start_set_session(r)     == SetexSession(r, "s_set_session", "s_set_request")
reviewing_set_session(r) == SetexSession(r, "c_set_session", "c_set_request")
refining_set_session(r)  == SetexSession(r, "r_set_session", "r_set_request")
next_set_session(r)      == SetexSession(r, "n_set_session", "n_set_request")
except_set_session(r)    == SetexSession(r, "h_set_session", "h_set_request")
completed_set_session(r) ==
    \E at \in {"d_set_session", "x_set_session"} :
        SetexSession(r, at, IF at = "d_set_session" THEN "d_set_request" ELSE "x_set_request")

\* ------------------------------------------------ _run_generation_cycle

\* a later pass goes back to the review step with the code it has
LoopTestReviewAgain(r, s) ==
    IF s.refinement_iterations < s.max_iterations
    THEN /\ SetPc(r, IF s.current_code_id = None THEN "g_call" ELSE "c_set_session")
         /\ session' = [session EXCEPT ![r] = s]
         /\ UNCHANGED request
    ELSE /\ SetPc(r, "returned")
         /\ session' = [session EXCEPT ![r] = s]
         /\ UNCHANGED request

\* The loop test of line 66 with what follows it up to the next await: the
\* generator call of the iteration, the first read of _refine_code, or, the
\* bound exhausted, lines 118-122.
LoopTest(r, s) ==
    IF s.refinement_iterations < s.max_iterations
    THEN /\ SetPc(r, IF s.current_code_id = None THEN "g_call" ELSE "f_get_code")
         /\ session' = [session EXCEPT ![r] = s]
         /\ UNCHANGED request
    ELSE IF s.status # COMPLETED
    THEN /\ SetPc(r, "x_set_session")
         /\ session' = [session EXCEPT ![r] = [s EXCEPT !.status = COMPLETED]]
         /\ request' = [request EXCEPT ![r].status = COMPLETED]
    ELSE /\ SetPc(r, "returned")
         /\ session' = [session EXCEPT ![r] = s]
         /\ UNCHANGED request

\* line 47, then the try block is entered and the loop begins
start_set_request(r) ==
    /\ pc[r] = "s_set_request"
    /\ SetexRequest(r)
    /\ LoopTest(r, session[r])
    /\ UNCHANGED <<sessions, codes, reviews, rankings, uuid, generated_code,
                   current_code, refineVars, ranking, critVars, envVars, funVars>>

\* a refinement that keeps the version of the code it refines
NextVersionKept(s, cur) == IF s.current_code_id = None THEN 1 ELSE cur.version

\* version=1 in _generate_initial_code (taken while the session has no code),
\* version=current_code.version + 1 in _refine_code
NextVersion(s, cur) == IF s.current_code_id = None THEN 1 ELSE cur.version + 1

\* a refinement that keeps the id of the code it refines: stored, it replaces it
generator_call_in_place(r) ==
    /\ pc[r] = "g_call"
    /\ \E err \in BOOLEAN :
        /\ err => modelFaults < MaxModelFaults
        /\ modelFaults' = IF err THEN modelFaults + 1 ELSE modelFaults
        /\ generated_code' = [generated_code EXCEPT ![r] =
              [id |-> IF session[r].current_code_id = None
                      THEN uuid + 1 ELSE session[r].current_code_id,
               request_id |-> request_id[r], session_id |-> session[r].id,
               version |-> NextVersion(session[r], current_code[r]),
               generated_code |-> IF err THEN ErrorSentinel ELSE "code", error |-> err]]
    /\ uuid' = uuid + 1
    /\ SetPc(r, "g_set_code")
    /\ UNCHANGED <<storeVars, session, request, current_code, refineVars, ranking, critVars,
                   clients, request_id, emptyCodes, rateVars, storeFaults, funVars>>

\* a failing generator call raises: the except block of start_generation runs
generator_call_raising(r) ==
    /\ pc[r] = "g_call"
    /\ \E err \in BOOLEAN :
        /\ err => modelFaults < MaxModelFaults
        /\ modelFaults' = IF err THEN modelFaults + 1 ELSE modelFaults
        /\ IF err
           THEN /\ session' = [session EXCEPT ![r].status = FAILED]
                /\ request' = [request EXCEPT ![r].status = FAILED]
                /\ SetPc(r, "h_set_session")
                /\ UNCHANGED <<generated_code, uuid>>
           ELSE /\ generated_code' = [generated_code EXCEPT ![r] =
                      [id |-> uuid + 1, request_id |-> request_id[r],
                       session_id |-> session[r].id,
                       version |-> NextVersion(session[r], current_code[r]),
                       generated_code |-> "code", error |-> FALSE]]
                /\ uuid' = uuid + 1
                /\ SetPc(r, "g_set_code")
                /\ UNCHANGED <<session, request>>
    /\ UNCHANGED <<storeVars, current_code, refineVars, ranking, critVars,
                   clients, request_id, emptyCodes, rateVars, storeFaults, funVars>>

\* llm_service.get_generator_response returns (it never raises: an error comes
\* back as code starting "# Error generating code", and a response whose code
\* block holds nothing but the language name comes back as the empty string),
\* and _generate_initial_code or _refine_code builds the GeneratedCode up to
\* its setex.
generator_call(r) ==
    /\ pc[r] = "g_call"
    /\ \E code \in {"code", "", ErrorSentinel} :
        /\ code = ErrorSentinel => modelFaults < MaxModelFaults
        /\ code = "" => emptyCodes < MaxEmptyCodes
        /\ modelFaults' = IF code = ErrorSentinel THEN modelFaults + 1 ELSE modelFaults
        /\ emptyCodes' = IF code = "" THEN emptyCodes + 1 ELSE emptyCodes
        /\ generated_code' = [generated_code EXCEPT ![r] =
              [id |-> uuid + 1, request_id |-> request_id[r], session_id |-> session[r].id,
               version |-> NextVersion(session[r], current_code[r]),
               generated_code |-> code, error |-> code = ErrorSentinel]]
    /\ uuid' = uuid + 1
    /\ SetPc(r, "g_set_code")
    /\ UNCHANGED <<storeVars, session, request, current_code, refineVars, ranking, critVars,
                   clients, request_id, rateVars, storeFaults, funVars>>

\* the artifact stored, the session goes to refining without reviewing
set_code_refining(r) ==
    /\ pc[r] = "g_set_code"
    /\ codes' = Put(codes, generated_code[r].id, generated_code[r])
    /\ session' = [session EXCEPT ![r].current_code_id = generated_code[r].id,
                                  ![r].status = REFINING]
    /\ request' = [request EXCEPT ![r].status = REFINING]
    /\ SetPc(r, "c_set_session")
    /\ UNCHANGED <<requests, sessions, reviews, rankings, uuid, generated_code,
                   current_code, refineVars, ranking, critVars, envVars, funVars>>

\* lines 165 / 234, then 77-82
set_code(r) ==
    /\ pc[r] = "g_set_code"
    /\ codes' = Put(codes, generated_code[r].id, generated_code[r])
    /\ session' = [session EXCEPT ![r].current_code_id = generated_code[r].id,
                                  ![r].status = REVIEWING]
    /\ request' = [request EXCEPT ![r].status = REVIEWING]
    /\ SetPc(r, "c_set_session")
    /\ UNCHANGED <<requests, sessions, reviews, rankings, uuid, generated_code,
                   current_code, refineVars, ranking, critVars, envVars, funVars>>

\* line 83, then asyncio.gather starts the two _get_critic_review branches
reviewing_set_request(r) ==
    /\ pc[r] = "c_set_request"
    /\ SetexRequest(r)
    /\ kpc' = [kpc EXCEPT ![r] = [c \in Critics |-> "k_get_request"]]
    /\ SetPc(r, "gather")
    /\ UNCHANGED <<sessions, codes, reviews, rankings, uuid, session, request,
                   generated_code, current_code, refineVars, ranking, kreview, envVars, funVars>>

\* ---------------------------------------------------- _get_critic_review

\* lines 243-244: the request is read back for the prompt
critic_get_request(r, c) ==
    /\ kpc[r][c] = "k_get_request"
    /\ request_id[r] \in DOMAIN requests
    /\ kpc' = [kpc EXCEPT ![r][c] = "k_call"]
    /\ UNCHANGED <<storeVars, uuid, taskVars, kreview, envVars, funVars>>

\* a critic call whose exception is not caught: the branch ends with it
critic_call_raising(r, c) ==
    /\ kpc[r][c] = "k_call"
    /\ \E err \in BOOLEAN :
        /\ err => modelFaults < MaxModelFaults
        /\ modelFaults' = IF err THEN modelFaults + 1 ELSE modelFaults
        /\ kreview' = [kreview EXCEPT ![r][c] =
              [id |-> uuid + 1, session_id |-> generated_code[r].session_id,
               code_id |-> generated_code[r].id, critic_type |-> c, error |-> err]]
        /\ kpc' = [kpc EXCEPT ![r][c] = IF err THEN "raised" ELSE "k_set_review"]
    /\ uuid' = uuid + 1
    /\ UNCHANGED <<storeVars, taskVars, clients, request_id, emptyCodes, rateVars, storeFaults, funVars>>

\* llm_service.get_critic_review returns (it never raises: an error comes back
\* as the review "Error during review: ...", no suggestions, severity 5), and
\* the CriticReview is built
critic_call(r, c) ==
    /\ kpc[r][c] = "k_call"
    /\ \E err \in BOOLEAN :
        /\ err => modelFaults < MaxModelFaults
        /\ modelFaults' = IF err THEN modelFaults + 1 ELSE modelFaults
        /\ kreview' = [kreview EXCEPT ![r][c] =
              [id |-> uuid + 1, session_id |-> generated_code[r].session_id,
               code_id |-> generated_code[r].id, critic_type |-> c, error |-> err]]
    /\ uuid' = uuid + 1
    /\ kpc' = [kpc EXCEPT ![r][c] = "k_set_review"]
    /\ UNCHANGED <<storeVars, taskVars, clients, request_id, emptyCodes, rateVars, storeFaults, funVars>>

\* the branch returns its review without having stored it
critic_set_review_unsaved(r, c) ==
    /\ kpc[r][c] = "k_set_review"
    /\ kpc' = [kpc EXCEPT ![r][c] = "done"]
    /\ UNCHANGED <<storeVars, uuid, taskVars, kreview, envVars, funVars>>

\* line 268
critic_set_review(r, c) ==
    /\ kpc[r][c] = "k_set_review"
    /\ reviews' = Put(reviews, kreview[r][c].id, kreview[r][c])
    /\ kpc' = [kpc EXCEPT ![r][c] = "done"]
    /\ UNCHANGED <<requests, sessions, codes, rankings, uuid, taskVars, kreview,
                   envVars, funVars>>

\* a store operation of the branch raises: the branch ends with the exception
critic_raise(r, c) ==
    /\ kpc[r][c] \in {"k_get_request", "k_set_review"}
    /\ storeFaults < MaxStoreFaults
    /\ storeFaults' = storeFaults + 1
    /\ kpc' = [kpc EXCEPT ![r][c] = "raised"]
    /\ UNCHANGED <<storeVars, uuid, taskVars, kreview, clients, request_id, emptyCodes, rateVars, modelFaults, funVars>>

\* the except block of start_generation, lines 53-56, up to its first setex
Except(r) ==
    /\ session' = [session EXCEPT ![r].status = FAILED]
    /\ request' = [request EXCEPT ![r].status = FAILED]
    /\ SetPc(r, "h_set_session")

\* gather returns as soon as one branch has: the other is still running
gather_join_first(r) ==
    /\ pc[r] = "gather"
    /\ \E c \in Critics : kpc[r][c] = "done"
    /\ session' = [session EXCEPT ![r].critic1_review_id = kreview[r][1].id,
                                  ![r].critic2_review_id = kreview[r][2].id,
                                  ![r].status = REFINING]
    /\ request' = [request EXCEPT ![r].status = REFINING]
    /\ kpc' = [kpc EXCEPT ![r] =
                 [c \in Critics |-> IF kpc[r][c] = "done" THEN "idle" ELSE kpc[r][c]]]
    /\ SetPc(r, "r_set_session")
    /\ UNCHANGED <<storeVars, uuid, generated_code, current_code, refineVars, ranking, kreview,
                   envVars, funVars>>

\* gather returns both reviews; lines 90-96
gather_join(r) ==
    /\ pc[r] = "gather"
    /\ \A c \in Critics : kpc[r][c] = "done"
    /\ session' = [session EXCEPT ![r].critic1_review_id = kreview[r][1].id,
                                  ![r].critic2_review_id = kreview[r][2].id,
                                  ![r].status = REFINING]
    /\ request' = [request EXCEPT ![r].status = REFINING]
    /\ kpc' = [kpc EXCEPT ![r] = [c \in Critics |-> "idle"]]
    /\ SetPc(r, "r_set_session")
    /\ UNCHANGED <<storeVars, uuid, generated_code, current_code, refineVars, ranking, kreview,
                   envVars, funVars>>

\* gather propagates the first exception and cancels the branch still running
gather_raise_cancelling(r) ==
    /\ pc[r] = "gather"
    /\ \E c \in Critics : kpc[r][c] = "raised"
    /\ Except(r)
    /\ kpc' = [kpc EXCEPT ![r] =
                 [c \in Critics |->
                     IF kpc[r][c] \in {"k_get_request", "k_call", "k_set_review"}
                     THEN "cancelled" ELSE kpc[r][c]]]
    /\ UNCHANGED <<storeVars, uuid, generated_code, current_code, refineVars, ranking, kreview,
                   envVars, funVars>>

\* gather propagates the first exception of a branch; the other branch is not
\* cancelled and runs on
gather_raise(r) ==
    /\ pc[r] = "gather"
    /\ \E c \in Critics : kpc[r][c] = "raised"
    /\ Except(r)
    /\ UNCHANGED <<storeVars, uuid, generated_code, current_code, refineVars, ranking, critVars,
                   envVars, funVars>>

\* ----------------------------------------------- _rank_and_plan_refinement

\* line 97, then line 279 is awaited
refining_set_request(r) ==
    /\ pc[r] = "r_set_request"
    /\ SetexRequest(r)
    /\ SetPc(r, "rk_get_request")
    /\ UNCHANGED <<sessions, codes, reviews, rankings, uuid, session, request,
                   generated_code, current_code, refineVars, ranking, critVars, envVars, funVars>>

\* lines 279-280
rank_get_request(r) ==
    /\ pc[r] = "rk_get_request"
    /\ request_id[r] \in DOMAIN requests
    /\ SetPc(r, "rk_call")
    /\ UNCHANGED <<storeVars, uuid, session, request, generated_code, current_code, refineVars,
                   ranking, critVars, envVars, funVars>>

\* What llm_service.rank_reviews_and_plan returns: the parsed scores of the
\* response, or on any exception ("Error during ranking: ...", 0.1, 0.1, ...)
RankResult(failed, scores) ==
    IF failed
    THEN [ranking_explanation |-> RankErrorMarker,
          critic1_score |-> RankFailScore, critic2_score |-> RankFailScore]
    ELSE [ranking_explanation |-> RankAnalysis,
          critic1_score |-> scores[1], critic2_score |-> scores[2]]

\* the ReviewRanking built with critic1's review in both places
rank_call_one_review(r) ==
    /\ pc[r] = "rk_call"
    /\ \E failed \in BOOLEAN, scores \in ScorePairs :
        /\ failed => modelFaults < MaxModelFaults /\ scores = <<2, 1>>
        /\ modelFaults' = IF failed THEN modelFaults + 1 ELSE modelFaults
        /\ LET res == RankResult(failed, scores) IN
           ranking' = [ranking EXCEPT ![r] =
              [id |-> uuid + 1, session_id |-> generated_code[r].session_id,
               code_id |-> generated_code[r].id,
               critic1_review_id |-> kreview[r][1].id,
               critic2_review_id |-> kreview[r][1].id,
               ranking_explanation |-> res.ranking_explanation,
               critic1_score |-> res.critic1_score,
               critic2_score |-> res.critic2_score]]
    /\ uuid' = uuid + 1
    /\ SetPc(r, "rk_set_ranking")
    /\ UNCHANGED <<storeVars, session, request, generated_code, current_code, refineVars,
                   critVars, clients, request_id, emptyCodes, rateVars, storeFaults, funVars>>

\* the ReviewRanking built for the session the workflow object started last
rank_call_last_session(r) ==
    /\ pc[r] = "rk_call"
    /\ \E failed \in BOOLEAN, scores \in ScorePairs :
        /\ failed => modelFaults < MaxModelFaults /\ scores = <<2, 1>>
        /\ modelFaults' = IF failed THEN modelFaults + 1 ELSE modelFaults
        /\ LET res == RankResult(failed, scores) IN
           ranking' = [ranking EXCEPT ![r] =
              [id |-> uuid + 1,
               session_id |-> CHOOSE s \in DOMAIN sessions :
                                  \A o \in DOMAIN sessions : o <= s,
               code_id |-> generated_code[r].id,
               critic1_review_id |-> kreview[r][1].id,
               critic2_review_id |-> kreview[r][2].id,
               ranking_explanation |-> res.ranking_explanation,
               critic1_score |-> res.critic1_score,
               critic2_score |-> res.critic2_score]]
    /\ uuid' = uuid + 1
    /\ SetPc(r, "rk_set_ranking")
    /\ UNCHANGED <<storeVars, session, request, generated_code, current_code, refineVars,
                   critVars, clients, request_id, emptyCodes, rateVars, storeFaults, funVars>>

\* lines 282-305: the ranking call returns and the ReviewRanking is built
rank_call(r) ==
    /\ pc[r] = "rk_call"
    /\ \E failed \in BOOLEAN, scores \in ScorePairs :
        /\ failed => modelFaults < MaxModelFaults /\ scores = <<2, 1>>
        /\ modelFaults' = IF failed THEN modelFaults + 1 ELSE modelFaults
        /\ LET res == RankResult(failed, scores) IN
           ranking' = [ranking EXCEPT ![r] =
              [id |-> uuid + 1, session_id |-> generated_code[r].session_id,
               code_id |-> generated_code[r].id,
               critic1_review_id |-> kreview[r][1].id,
               critic2_review_id |-> kreview[r][2].id,
               ranking_explanation |-> res.ranking_explanation,
               critic1_score |-> res.critic1_score,
               critic2_score |-> res.critic2_score]]
    /\ uuid' = uuid + 1
    /\ SetPc(r, "rk_set_ranking")
    /\ UNCHANGED <<storeVars, session, request, generated_code, current_code, refineVars,
                   critVars, clients, request_id, emptyCodes, rateVars, storeFaults, funVars>>

\* the stop check not passed, the next pass begins without the iteration counted
set_ranking_uncounted(r) ==
    /\ pc[r] = "rk_set_ranking"
    /\ rankings' = Put(rankings, ranking[r].id, ranking[r])
    /\ LET s == [session[r] EXCEPT !.ranking_id = ranking[r].id] IN
       IF should_stop_refinement(ranking[r], s)
       THEN /\ session' = [session EXCEPT ![r] = [s EXCEPT !.status = COMPLETED]]
            /\ request' = [request EXCEPT ![r].status = COMPLETED]
            /\ SetPc(r, "d_set_session")
       ELSE /\ session' = [session EXCEPT ![r] = [s EXCEPT !.status = GENERATING]]
            /\ request' = [request EXCEPT ![r].status = GENERATING]
            /\ SetPc(r, "n_set_session")
    /\ UNCHANGED <<requests, sessions, codes, reviews, uuid, generated_code,
                   current_code, refineVars, ranking, critVars, envVars, funVars>>

\* the ranking stored, the session keeps the ranking id it had
set_ranking_unlinked(r) ==
    /\ pc[r] = "rk_set_ranking"
    /\ rankings' = Put(rankings, ranking[r].id, ranking[r])
    /\ IF should_stop_refinement(ranking[r], session[r])
       THEN /\ session' = [session EXCEPT ![r].status = COMPLETED]
            /\ request' = [request EXCEPT ![r].status = COMPLETED]
            /\ SetPc(r, "d_set_session")
       ELSE /\ session' = [session EXCEPT ![r].refinement_iterations = @ + 1,
                                          ![r].status = GENERATING]
            /\ request' = [request EXCEPT ![r].status = GENERATING]
            /\ SetPc(r, "n_set_session")
    /\ UNCHANGED <<requests, sessions, codes, reviews, uuid, generated_code,
                   current_code, refineVars, ranking, critVars, envVars, funVars>>

\* line 308, then lines 100-115: the stop check and the status it leads to
set_ranking(r) ==
    /\ pc[r] = "rk_set_ranking"
    /\ rankings' = Put(rankings, ranking[r].id, ranking[r])
    /\ LET s == [session[r] EXCEPT !.ranking_id = ranking[r].id] IN
       IF should_stop_refinement(ranking[r], s)
       THEN /\ session' = [session EXCEPT ![r] = [s EXCEPT !.status = COMPLETED]]
            /\ request' = [request EXCEPT ![r].status = COMPLETED]
            /\ SetPc(r, "d_set_session")
       ELSE /\ session' = [session EXCEPT ![r] =
                             [s EXCEPT !.refinement_iterations = @ + 1,
                                       !.status = GENERATING]]
            /\ request' = [request EXCEPT ![r].status = GENERATING]
            /\ SetPc(r, "n_set_session")
    /\ UNCHANGED <<requests, sessions, codes, reviews, uuid, generated_code,
                   current_code, refineVars, ranking, critVars, envVars, funVars>>

\* line 108 and the break, or line 123: the cycle returns, start_generation
\* returns the session and the background task ends
completed_set_request(r) ==
    /\ pc[r] \in {"d_set_request", "x_set_request"}
    /\ SetexRequest(r)
    /\ SetPc(r, "returned")
    /\ UNCHANGED <<sessions, codes, reviews, rankings, uuid, session, request,
                   generated_code, current_code, refineVars, ranking, critVars, envVars, funVars>>

\* line 116, then the loop test
next_set_request(r) ==
    /\ pc[r] = "n_set_request"
    /\ SetexRequest(r)
    /\ LoopTest(r, session[r])
    /\ UNCHANGED <<sessions, codes, reviews, rankings, uuid, generated_code,
                   current_code, refineVars, ranking, critVars, envVars, funVars>>

\* ------------------------------------------------------------ _refine_code

\* the code read back is the oldest artifact in the store
refine_get_code_oldest(r) ==
    /\ pc[r] = "f_get_code"
    /\ session[r].current_code_id \in DOMAIN codes
    /\ current_code' = [current_code EXCEPT ![r] =
          codes[CHOOSE c \in DOMAIN codes : \A d \in DOMAIN codes : c <= d]]
    /\ SetPc(r, "f_get_ranking")
    /\ UNCHANGED <<storeVars, uuid, session, request, generated_code, refineVars,
                   ranking, critVars, envVars, funVars>>

\* lines 174-175: the current code is read back
refine_get_code(r) ==
    /\ pc[r] = "f_get_code"
    /\ session[r].current_code_id \in DOMAIN codes
    /\ current_code' = [current_code EXCEPT ![r] = codes[session[r].current_code_id]]
    /\ SetPc(r, "f_get_ranking")
    /\ UNCHANGED <<storeVars, uuid, session, request, generated_code, refineVars,
                   ranking, critVars, envVars, funVars>>

\* lines 177-178: the latest ranking is read back
refine_get_ranking(r) ==
    /\ pc[r] = "f_get_ranking"
    /\ session[r].ranking_id \in DOMAIN rankings
    /\ refine_ranking' = [refine_ranking EXCEPT ![r] = rankings[session[r].ranking_id]]
    /\ SetPc(r, "f_get_review1")
    /\ UNCHANGED <<storeVars, uuid, session, request, generated_code, current_code,
                   refine_review, ranking, critVars, envVars, funVars>>

\* lines 181-182 and 184-185: the two reviews are read back, then the
\* generator is called with the refinement prompt
refine_get_review(r) ==
    /\ \/ /\ pc[r] = "f_get_review1"
          /\ session[r].critic1_review_id \in DOMAIN reviews
          /\ refine_review' = [refine_review EXCEPT ![r][1] =
                                  reviews[session[r].critic1_review_id]]
          /\ SetPc(r, "f_get_review2")
       \/ /\ pc[r] = "f_get_review2"
          /\ session[r].critic2_review_id \in DOMAIN reviews
          /\ refine_review' = [refine_review EXCEPT ![r][2] =
                                  reviews[session[r].critic2_review_id]]
          /\ SetPc(r, "g_call")
    /\ UNCHANGED <<storeVars, uuid, session, request, generated_code, current_code,
                   refine_ranking, ranking, critVars, envVars, funVars>>

\* ------------------------------------------------------------- exceptions

\* the store operations awaited inside the try block of start_generation
InTry == {"g_set_code", "c_set_session", "c_set_request", "r_set_session",
          "r_set_request", "rk_get_request", "rk_set_ranking", "d_set_session",
          "d_set_request", "n_set_session", "n_set_request", "x_set_session",
          "x_set_request", "f_get_code", "f_get_ranking", "f_get_review1",
          "f_get_review2"}

\* those a failure of which leaves start_generation (or the wrapper's try
\* block) for the wrapper's except block
ToWrapper == {"w_get", "s_set_session", "s_set_request", "h_set_session",
              "h_set_request"}

\* The store operation a task awaits raises.  Inside the try block the except
\* block of start_generation runs; elsewhere the exception reaches the except
\* block of start_generation_workflow; raised by that block's own setex it ends
\* the background task.
store_raise(r) ==
    /\ storeFaults < MaxStoreFaults
    /\ storeFaults' = storeFaults + 1
    /\ \/ /\ pc[r] \in InTry
          /\ Except(r)
       \/ /\ pc[r] \in ToWrapper
          /\ SetPc(r, "w_fail_set")
          /\ UNCHANGED <<session, request>>
       \/ /\ pc[r] = "w_fail_set"
          /\ SetPc(r, "crashed")
          /\ UNCHANGED <<session, request>>
    /\ UNCHANGED <<storeVars, uuid, generated_code, current_code, refineVars, ranking, critVars,
                   clients, request_id, emptyCodes, rateVars, modelFaults, funVars>>

\* line 58, then the exception is raised again to start_generation_workflow
except_set_request(r) ==
    /\ pc[r] = "h_set_request"
    /\ SetexRequest(r)
    /\ SetPc(r, "w_fail_set")
    /\ UNCHANGED <<sessions, codes, reviews, rankings, uuid, session, request,
                   generated_code, current_code, refineVars, ranking, critVars, envVars, funVars>>

\* The except block of start_generation_workflow, lines 114-118: it marks and
\* stores the request object the task was started with, not current_request.
wrapper_except(r) ==
    /\ pc[r] = "w_fail_set"
    /\ requests' = Put(requests, request_id[r], [NewRequest EXCEPT !.status = FAILED])
    /\ SetPc(r, "failed")
    /\ UNCHANGED <<sessions, codes, reviews, rankings, uuid, session, request,
                   generated_code, current_code, refineVars, ranking, critVars, envVars, funVars>>

\* ------------------------------------------------------------------ next

Next ==
    \E r \in AllRequests :
        \/ generate_code(r)
        \/ start_generation_workflow(r)
        \/ start_set_session(r)
        \/ start_set_request(r)
        \/ generator_call(r)
        \/ set_code(r)
        \/ reviewing_set_session(r)
        \/ reviewing_set_request(r)
        \/ \E c \in Critics :
              \/ critic_get_request(r, c)
              \/ critic_call(r, c)
              \/ critic_set_review(r, c)
              \/ critic_raise(r, c)
        \/ gather_join(r)
        \/ gather_raise(r)
        \/ refining_set_session(r)
        \/ refining_set_request(r)
        \/ rank_get_request(r)
        \/ rank_call(r)
        \/ set_ranking(r)
        \/ completed_set_session(r)
        \/ completed_set_request(r)
        \/ next_set_session(r)
        \/ next_set_request(r)
        \/ refine_get_code(r)
        \/ refine_get_ranking(r)
        \/ refine_get_review(r)
        \/ store_raise(r)
        \/ except_set_session(r)
        \/ except_set_request(r)
        \/ wrapper_except(r)

Spec == Init /\ [][Next]_vars

\* ------------------------------------------- the stopping policy on its own

StopArgs ==
    [f : {"should_stop"},
     refinement_iterations : 0..MaxIterArg,
     max_iterations : 0..MaxIterArg,
     ranking_explanation : {RankAnalysis, RankErrorMarker},
     critic1_score : 0..MaxScore,
     critic2_score : 0..MaxScore]

InitStop ==
    /\ InitWorkflow
    /\ clients = {}
    /\ arg \in StopArgs
    /\ ret = NoFun

\* self._should_stop_refinement(ranking, session) on the drawn ranking and session
call_should_stop ==
    /\ arg.f = "should_stop"
    /\ ret = NoFun
    /\ ret' = [f |-> "should_stop",
               stop |-> should_stop_refinement(
                   [NoRanking EXCEPT !.ranking_explanation = arg.ranking_explanation,
                                     !.critic1_score = arg.critic1_score,
                                     !.critic2_score = arg.critic2_score],
                   [NoSession EXCEPT !.refinement_iterations = arg.refinement_iterations,
                                     !.max_iterations = arg.max_iterations])]
    /\ UNCHANGED <<storeVars, uuid, taskVars, critVars, envVars, arg>>

SpecStop == InitStop /\ [][call_should_stop]_vars

\* ---------------------------------------------------------------- views

Terminal == {COMPLETED, FAILED}

\* the background task of r is over

\* start_generation has stored the session it created for r
SessionStored(r) == session[r].id # None /\ session[r].id \in DOMAIN sessions

\* start_generation raised to start_generation_workflow

StoredStatus(r) == sessions[session[r].id].status

\* the stored artifacts of a session
CodesOf(sid) == {c \in DOMAIN codes : codes[c].session_id = sid}

\* ---------------------------------------------------------------- claims

\* C1: every session that start_generation stored has reached completed or
\* failed once its background task is over; none is left generating, reviewing
\* or refining.
C1_EndsTerminal ==
    \A r \in AllRequests :
        pc[r] \in {"returned", "failed", "crashed"} /\ SessionStored(r)
            => StoredStatus(r) \in Terminal

\* C2: while the status of a session is not completed or failed, in the store
\* and in the orchestrator, refinement_iterations < max_iterations; and
\* refinement_iterations <= max_iterations - 1 whenever the stopping policy is
\* about to be evaluated.
C2_IterationsBelowMax ==
    /\ \A sid \in DOMAIN sessions :
          sessions[sid].status \notin Terminal
              => sessions[sid].refinement_iterations < sessions[sid].max_iterations
    /\ \A r \in AllRequests :
          /\ session[r].status \notin Terminal
                => session[r].refinement_iterations < session[r].max_iterations
          /\ pc[r] = "rk_set_ranking"
                => session[r].refinement_iterations <= session[r].max_iterations - 1

C2_Witness ==
    \E sid \in DOMAIN sessions :
        /\ sessions[sid].status = GENERATING
        /\ sessions[sid].refinement_iterations = sessions[sid].max_iterations - 1

\* C3: the artifacts stored for a session, in the order they were created, have
\* the versions 1, 2, ..., n: the k-th has version k.
C3_VersionsInSequence ==
    \A sid \in DOMAIN sessions :
        \A c \in CodesOf(sid) :
            codes[c].version = Cardinality({d \in CodesOf(sid) : d <= c})

C3_Witness ==
    \E sid \in DOMAIN sessions : Cardinality(CodesOf(sid)) = 3

\* the pair of writes of a status transition of r is under way, or the task
\* died in the middle of one

\* C4: whenever the orchestrator and the server are not in the middle of a
\* status transition of r (between deciding a status and having written both
\* records, or dead in the middle of one), the stored session and the stored
\* request have the same status.
C4_StatusInLockstep ==
    LET InTransition(r) ==
            pc[r] \in {"s_set_session", "s_set_request", "c_set_session", "c_set_request",
                       "r_set_session", "r_set_request", "d_set_session", "d_set_request",
                       "n_set_session", "n_set_request", "x_set_session", "x_set_request",
                       "h_set_session", "h_set_request", "w_fail_set", "crashed"}
    IN  \A r \in AllRequests :
            SessionStored(r) /\ ~InTransition(r)
                => StoredStatus(r) = requests[r].status

\* C5: once the stored status of a session is completed or failed, no step
\* changes it.
C5_TerminalAbsorbing ==
    [][\A sid \in DOMAIN sessions :
          sessions[sid].status \in Terminal
              => sessions'[sid].status = sessions[sid].status]_vars

\* C6: when start_generation has raised to its caller, the stored session and
\* the stored request of that session both have status failed.
C6_FailedOnError ==
    \A r \in AllRequests :
        /\ session[r].id # None
        /\ pc[r] \in {"w_fail_set", "failed", "crashed"}
        /\ SessionStored(r)
        => StoredStatus(r) = FAILED /\ requests[r].status = FAILED

\* gather has returned the two reviews of the iteration in hand (lines 85-91)
Joined(r) ==
    /\ session[r].current_code_id # None
    /\ session[r].critic1_review_id = kreview[r][1].id
    /\ session[r].critic2_review_id = kreview[r][2].id
    /\ \A c \in Critics : kreview[r][c].code_id = session[r].current_code_id

\* the critic call of c failed in the iteration in hand
CriticFailed(r, c) ==
    /\ kreview[r][c].error
    /\ kreview[r][c].code_id = session[r].current_code_id
    /\ session[r].current_code_id # None

\* the rankings stored for an artifact
RankingsOf(cid) == {k \in DOMAIN rankings : rankings[k].code_id = cid}

\* C7: when both critic calls of an iteration have failed, the session goes to
\* failed and no ranking is stored for that iteration's artifact: the session
\* does not come to a stop check that sets it completed or generating.
C7_BothCriticsFailIsFatal ==
    \A r \in AllRequests :
        Joined(r) /\ (\A c \in Critics : CriticFailed(r, c))
            => /\ RankingsOf(session[r].current_code_id) = {}
               /\ session[r].status \notin {COMPLETED, GENERATING}

C9_RankingFailureStops ==
    /\ \A k \in DOMAIN rankings :
          HasRankError(rankings[k])
            => /\ rankings[k].critic1_score = 1 /\ rankings[k].critic2_score = 1
               /\ \A c \in CodesOf(rankings[k].session_id) : c < k
    /\ \A r \in AllRequests :
          HasRankError(ranking[r]) /\ ranking[r].id \in DOMAIN rankings
            => /\ session[r].status \in {COMPLETED, FAILED}
               /\ session[r].status = FAILED => storeFaults > 0
               /\ generated_code[r].id < ranking[r].id
               /\ pc[r] \in {"d_set_session", "d_set_request", "returned",
                             "h_set_session", "h_set_request", "w_fail_set",
                             "failed", "crashed"}
               /\ pc[r] = "returned" => StoredStatus(r) = COMPLETED

\* the ranking call of the first iteration failed and the session ended completed
C9_Witness ==
    \E r \in AllRequests :
        /\ pc[r] = "returned"
        /\ SessionStored(r)
        /\ StoredStatus(r) = COMPLETED
        /\ sessions[session[r].id].refinement_iterations = 0
        /\ sessions[session[r].id].ranking_id \in DOMAIN rankings
        /\ HasRankError(rankings[sessions[session[r].id].ranking_id])
        /\ Cardinality(CodesOf(session[r].id)) = 1

\* C10: the stopping policy says stop exactly when refinement_iterations >=
\* max_iterations - 1, or the explanation carries the failure marker, or both
\* scores are below 0.3; so (2 of 3) stops whatever the scores, (0 of 3) with
\* (0.8, 0.6) continues, (0.2, 0.1) stops, and one score below 0.3 or scores
\* equal to 0.3 do not stop.
C10_StopExactlyWhen ==
    ret.f = "should_stop" =>
        /\ ret.stop <=> \/ arg.refinement_iterations >= arg.max_iterations - 1
                        \/ arg.ranking_explanation = "Error during ranking"
                        \/ arg.critic1_score < 3 /\ arg.critic2_score < 3
        /\ (arg.refinement_iterations = 2 /\ arg.max_iterations = 3) => ret.stop
        /\ (arg.critic1_score = 2 /\ arg.critic2_score = 1) => ret.stop
        /\ (/\ arg.refinement_iterations = 0 /\ arg.max_iterations = 3
            /\ arg.ranking_explanation = RankAnalysis
            /\ \/ arg.critic1_score = 8 /\ arg.critic2_score = 6
               \/ arg.critic1_score = 2 /\ arg.critic2_score = 3
               \/ arg.critic1_score = 3 /\ arg.critic2_score = 3
               \/ arg.critic1_score = 5 /\ arg.critic2_score = 0) => ~ret.stop

\* scores (0.3, 0.2) in the first of three iterations: the policy says continue
C10_Witness ==
    /\ ret.f = "should_stop"
    /\ ~ret.stop
    /\ arg.refinement_iterations = 0 /\ arg.max_iterations = 3
    /\ arg.critic1_score = 3 /\ arg.critic2_score = 2

\* the rankings stored for a session
RankingsIn(sid) == {k \in DOMAIN rankings : rankings[k].session_id = sid}

\* the reviews stored for an artifact by one critic
ReviewsOf(cid, c) ==
    {v \in DOMAIN reviews : reviews[v].code_id = cid /\ reviews[v].critic_type = c}

\* the first ranking of the session has the scores s1, its second the scores s2
RankedThen(sid, s1, s2) ==
    \E k1, k2 \in RankingsIn(sid) :
        /\ k1 < k2
        /\ \A j \in RankingsIn(sid) : j >= k1 /\ (j > k1 => j >= k2)
        /\ ~HasRankError(rankings[k1]) /\ ~HasRankError(rankings[k2])
        /\ <<rankings[k1].critic1_score, rankings[k1].critic2_score>> = s1
        /\ <<rankings[k2].critic1_score, rankings[k2].critic2_score>> = s2

\* C11: a session stored as completed has refinement_iterations + 1 stored
\* artifacts, of versions 1..refinement_iterations + 1; and with a bound of 3,
\* once the first ranking scored (0.6, 0.7) and the second (0.2, 0.1), the
\* orchestrator stops with refinement_iterations = 1 and two artifacts,
\* versions 1 and 2, and the session it stores as completed says so.
C11_ArtifactsOfCompleted ==
    /\ \A sid \in DOMAIN sessions :
          sessions[sid].status = COMPLETED
            => /\ Cardinality(CodesOf(sid)) = sessions[sid].refinement_iterations + 1
               /\ {codes[c].version : c \in CodesOf(sid)}
                     = 1..(sessions[sid].refinement_iterations + 1)
    /\ \A r \in AllRequests :
          (session[r].max_iterations = 3 /\ RankedThen(session[r].id, <<6, 7>>, <<2, 1>>))
            => /\ session[r].refinement_iterations = 1
               /\ session[r].status \in Terminal
               /\ {codes[c].version : c \in CodesOf(session[r].id)} = {1, 2}
               /\ Cardinality(CodesOf(session[r].id)) = 2
               /\ sessions[session[r].id].status = COMPLETED
                     => sessions[session[r].id].refinement_iterations = 1

\* the scenario: (0.6, 0.7), then (0.2, 0.1), and the task returned
C11_Witness ==
    \E r \in AllRequests :
        /\ pc[r] = "returned"
        /\ SessionStored(r)
        /\ StoredStatus(r) = COMPLETED
        /\ RankedThen(session[r].id, <<6, 7>>, <<2, 1>>)
        /\ Cardinality(CodesOf(session[r].id)) = 2

\* the ranking call returned and at least one of its scores is 0.3 or more
GoodRanking(k) ==
    /\ ~HasRankError(rankings[k])
    /\ rankings[k].critic1_score >= LowScore \/ rankings[k].critic2_score >= LowScore

\* the reviews stored for a session by one critic

\* C12: while no ranking of a session failed and every ranking has a score of
\* 0.3 or more, the orchestrator sets completed only in the pass that exhausts
\* the bound, after exactly max_iterations artifacts, max_iterations reviews of
\* each critic and max_iterations rankings, and it sets failed only after a
\* store operation raised; and whenever the cycle has been left by returning,
\* the session and the request are stored as completed.
C12_ExhaustionCompletes ==
    \A r \in AllRequests :
        LET sid == session[r].id
            n   == session[r].max_iterations
        IN  /\ (sid # None /\ \A k \in RankingsIn(sid) : GoodRanking(k))
                => /\ session[r].status = FAILED => storeFaults > 0
                   /\ session[r].status = COMPLETED
                        => /\ session[r].refinement_iterations = n - 1
                           /\ Cardinality(CodesOf(sid)) = n
                           /\ Cardinality(RankingsIn(sid)) = n
                           /\ \A c \in Critics : Cardinality({v \in DOMAIN reviews :
                                              /\ reviews[v].session_id = sid
                                              /\ reviews[v].critic_type = c}) = n
            /\ (sid # None /\ pc[r] = "returned")
                => /\ SessionStored(r)
                   /\ StoredStatus(r) = COMPLETED
                   /\ requests[r].status = COMPLETED

\* three passes with good rankings, no failure at all, and the task returned
C12_Witness ==
    \E r \in AllRequests :
        /\ pc[r] = "returned"
        /\ SessionStored(r)
        /\ StoredStatus(r) = COMPLETED
        /\ Cardinality(RankingsIn(session[r].id)) = DefaultMaxIterations
        /\ \A k \in RankingsIn(session[r].id) : GoodRanking(k)
        /\ storeFaults = 0 /\ modelFaults = 0

\* the status changes of a stored session that the workflow's state machine has

\* C13: a session enters the store as generating, and a step changes the
\* stored status of a session only from generating to reviewing, from
\* reviewing to refining, from refining to generating or completed, or from
\* any status to failed.
C13_StatusTransitions ==
    [][\A sid \in DOMAIN sessions' :
          IF sid \in DOMAIN sessions
          THEN \/ sessions'[sid].status = sessions[sid].status
               \/ <<sessions[sid].status, sessions'[sid].status>>
                    \in {<<GENERATING, REVIEWING>>, <<REVIEWING, REFINING>>,
                         <<REFINING, GENERATING>>, <<REFINING, COMPLETED>>}
               \/ sessions'[sid].status = FAILED
          ELSE sessions'[sid].status = GENERATING]_vars

\* a session went round the cycle once and then on to completed
C13_Witness ==
    \E sid \in DOMAIN sessions :
        /\ sessions[sid].status = COMPLETED
        /\ sessions[sid].refinement_iterations = 1
        /\ storeFaults = 0

\* a _get_critic_review branch of the iteration in hand has been started
CriticStarted(r, c) == kpc[r][c] # "idle"

\* the task is in _rank_and_plan_refinement
Ranking(r) == pc[r] \in {"rk_get_request", "rk_call", "rk_set_ranking"}

\* the task is in the generate step of a pass after the first
Refining(r) ==
    /\ pc[r] \in {"f_get_code", "f_get_ranking", "f_get_review1", "f_get_review2",
                  "g_call", "g_set_code"}
    /\ session[r].current_code_id # None

\* The order of the steps as it shows in a state: a critic branch is started only when the artifact of the iteration is
\* stored and is the session's current code; the task is in the rank step only
\* when both branches have returned and been joined, with their reviews of that
\* artifact; the task is in the generate step of a later pass only when the
\* ranking of the pass before is stored and the stop check on it said
\* continue; and records are created in that order: an artifact before its
\* reviews, the reviews before their ranking, the ranking before the next
\* artifact.
StepsInOrder ==
    /\ \A r \in AllRequests :
          /\ \A c \in Critics :
                CriticStarted(r, c)
                    => /\ generated_code[r].id \in DOMAIN codes
                       /\ session[r].current_code_id = generated_code[r].id
                       /\ RankingsOf(generated_code[r].id) = {}
          /\ Ranking(r)
                => /\ \A c \in Critics :
                        /\ kpc[r][c] = "idle"
                        /\ kreview[r][c].id \in DOMAIN reviews
                        /\ kreview[r][c].code_id = generated_code[r].id
                   /\ Joined(r)
          /\ Refining(r)
                => /\ \A c \in Critics : kpc[r][c] = "idle"
                   /\ ranking[r].id \in DOMAIN rankings
                   /\ ranking[r].id = session[r].ranking_id
                   /\ ranking[r].code_id = session[r].current_code_id
                   /\ ~should_stop_refinement(ranking[r],
                          [session[r] EXCEPT !.refinement_iterations = @ - 1])
    /\ \A v \in DOMAIN reviews :
          reviews[v].code_id \in DOMAIN codes /\ reviews[v].code_id < v
    /\ \A k \in DOMAIN rankings :
          /\ rankings[k].critic1_review_id < k /\ rankings[k].critic2_review_id < k
          /\ rankings[k].code_id < k
    /\ \A c \in DOMAIN codes :
          codes[c].version > 1
            => \E k \in RankingsIn(codes[c].session_id) :
                  /\ k < c
                  /\ codes[rankings[k].code_id].version = codes[c].version - 1

\* C14: the steps of a session are in that order in every state, and every
\* step keeps it: a critic branch is started only by a step taken with the
\* iteration's artifact in the store, the rank step is entered only from the
\* join of both branches, a review is stored only for an artifact already in
\* the store, a ranking only for reviews already in the store, and the generate
\* step of a later pass is entered only with the pass's ranking in the store.
C14_StepsInOrder ==
    /\ []StepsInOrder
    /\ [][\A r \in AllRequests :
             /\ \A c \in Critics :
                   (~CriticStarted(r, c) /\ CriticStarted(r, c)')
                      => generated_code[r].id \in DOMAIN codes
             /\ (~Ranking(r) /\ Ranking(r)')
                   => \A c \in Critics : kreview[r][c].id \in DOMAIN reviews
             /\ (~Refining(r) /\ Refining(r)')
                   => ranking[r].id \in DOMAIN rankings
             /\ \A v \in DOMAIN reviews' \ DOMAIN reviews :
                   reviews'[v].code_id \in DOMAIN codes
             /\ \A k \in DOMAIN rankings' \ DOMAIN rankings :
                   /\ rankings'[k].critic1_review_id \in DOMAIN reviews
                   /\ rankings'[k].critic2_review_id \in DOMAIN reviews]_vars

\* the rank call of the second pass is awaited
C14_Witness ==
    \E r \in AllRequests :
        /\ pc[r] = "rk_call"
        /\ session[r].refinement_iterations = 1
        /\ generated_code[r].version = 2

\* a _get_critic_review branch is on its way: started, not yet returned or raised
Pending(r, c) == kpc[r][c] \in {"k_get_request", "k_call", "k_set_review"}

\* the event loop runs every coroutine that can run: a critic branch whose
\* awaited operation can return is resumed
SpecFair ==
    /\ Spec
    /\ \A r \in AllRequests, c \in Critics :
          WF_vars(critic_get_request(r, c) \/ critic_call(r, c) \/ critic_set_review(r, c))

\* the steps of a branch that has not raised

\* C15: both branches are on their way at once; no step of the other branch or
\* of the task that awaits them takes a branch off its way (it moves only by
\* its own steps, or raises itself); and a branch that is on its way goes on
\* until it has stored its review and returned, or has itself raised.
C15_BranchRunsOn ==
    /\ [][\A r \in AllRequests, c \in Critics :
             Pending(r, c)
                => \/ kpc'[r][c] = kpc[r][c]
                   \/ <<kpc[r][c], kpc'[r][c]>>
                        \in {<<"k_get_request", "k_call">>, <<"k_call", "k_set_review">>,
                             <<"k_set_review", "done">>}
                   \/ kpc'[r][c] = "raised"]_vars
    /\ \A r \in AllRequests, c \in Critics :
          Pending(r, c)
              ~> \/ kpc[r][c] = "done" /\ kreview[r][c].id \in DOMAIN reviews
                 \/ kpc[r][c] = "raised"

\* critic1's branch raised, start_generation raised and the task is over;
\* critic2's branch has stored its review and returned
C15_Witness ==
    \E r \in AllRequests :
        /\ pc[r] = "failed"
        /\ kpc[r][1] = "raised"
        /\ kpc[r][2] = "done"
        /\ kreview[r][2].id \in DOMAIN reviews
        /\ reviews[kreview[r][2].id].code_id = session[r].current_code_id

\* Every stored ranking names two different reviews, critic1's and critic2's;
\* both are in the store; both are reviews of the ranking's artifact, which is
\* an artifact of the ranking's session, and they are the only reviews that
\* artifact has: the two of the ranking's iteration.
RankingReferences ==
    \A k \in DOMAIN rankings :
        LET r1  == rankings[k].critic1_review_id
            r2  == rankings[k].critic2_review_id
            cid == rankings[k].code_id
        IN  /\ r1 # r2
            /\ r1 \in DOMAIN reviews /\ r2 \in DOMAIN reviews
            /\ reviews[r1].critic_type = 1 /\ reviews[r2].critic_type = 2
            /\ reviews[r1].code_id = cid /\ reviews[r2].code_id = cid
            /\ reviews[r1].session_id = rankings[k].session_id
            /\ reviews[r2].session_id = rankings[k].session_id
            /\ cid \in CodesOf(rankings[k].session_id)
            /\ ReviewsOf(cid, 1) = {r1} /\ ReviewsOf(cid, 2) = {r2}
            /\ cid < r1 /\ cid < r2 /\ r1 < k /\ r2 < k

\* C16: every stored ranking refers in that way to the two reviews of its
\* iteration and to the artifact they reviewed, and the step that writes a
\* ranking finds both reviews, of the ranking's artifact, in the store already.
C16_RankingReferences ==
    /\ []RankingReferences
    /\ [][\A k \in DOMAIN rankings' \ DOMAIN rankings :
             LET r1 == rankings'[k].critic1_review_id
                 r2 == rankings'[k].critic2_review_id
             IN  /\ r1 \in DOMAIN reviews /\ r2 \in DOMAIN reviews
                 /\ reviews[r1].code_id = rankings'[k].code_id
                 /\ reviews[r2].code_id = rankings'[k].code_id
                 /\ reviews[r1].critic_type = 1 /\ reviews[r2].critic_type = 2]_vars

\* the rankings of two iterations are stored, each with its own two reviews
C16_Witness ==
    \E k1, k2 \in DOMAIN rankings :
        /\ k1 < k2
        /\ rankings[k1].session_id = rankings[k2].session_id
        /\ rankings[k1].critic1_review_id < rankings[k2].critic1_review_id
        /\ rankings[k1].critic2_review_id < rankings[k2].critic2_review_id
        /\ rankings[k1].code_id < rankings[k2].code_id

\* the newest of a set of ids
Latest(S) == CHOOSE x \in S : \A y \in S : y <= x

\* the review id a session record holds for a critic
ReviewIdOf(s, c) == IF c = 1 THEN s.critic1_review_id ELSE s.critic2_review_id

\* a session record holds the ids of all the stored records of the session's
\* newest artifact: the artifact, its reviews, its ranking
HoldsIteration(s) ==
    CodesOf(s.id) # {}
        => LET cur == Latest(CodesOf(s.id))
           IN  /\ s.current_code_id = cur
               /\ \A c \in Critics : \A v \in ReviewsOf(cur, c) : ReviewIdOf(s, c) = v
               /\ \A k \in RankingsOf(cur) : s.ranking_id = k

\* the session records a step writes
Written(sid) == sid \notin DOMAIN sessions \/ sessions'[sid] # sessions[sid]

\* the stop check of the pass has been made and its status is being written

\* The artifact is stored, and session and request are stored as reviewing with
\* its id, while gather is awaited; the two reviews are stored, and session and
\* request are stored as refining with their ids, while the rank step is
\* under way; the ranking is stored when the stop check has been made; session
\* and request are stored as generating, with the ranking's id, when the
\* generate step of the next pass is under way.
StoredBeforeNextStep ==
    \A r \in AllRequests :
        /\ pc[r] = "gather"
              => /\ generated_code[r].id \in DOMAIN codes
                 /\ codes[generated_code[r].id] = generated_code[r]
                 /\ sessions[session[r].id] = session[r]
                 /\ session[r].status = REVIEWING
                 /\ session[r].current_code_id = generated_code[r].id
                 /\ requests[r] = request[r]
        /\ Ranking(r)
              => /\ \A c \in Critics :
                      /\ kreview[r][c].id \in DOMAIN reviews
                      /\ reviews[kreview[r][c].id] = kreview[r][c]
                      /\ ReviewIdOf(session[r], c) = kreview[r][c].id
                 /\ sessions[session[r].id] = session[r]
                 /\ session[r].status = REFINING
                 /\ requests[r] = request[r]
        /\ session[r].ranking_id # None => session[r].ranking_id \in DOMAIN rankings
        /\ pc[r] \in {"d_set_session", "d_set_request", "n_set_session", "n_set_request"}
              => /\ ranking[r].id \in DOMAIN rankings
                 /\ rankings[ranking[r].id] = ranking[r]
                 /\ session[r].ranking_id = ranking[r].id
        /\ Refining(r)
              => /\ sessions[session[r].id] = session[r]
                 /\ session[r].status = GENERATING
                 /\ requests[r] = request[r]

\* C17 as stated: that, and every session record written, at whatever
\* transition, holds the ids of all the records stored so far for the
\* iteration.
C17_EveryWriteHoldsAll ==
    /\ []StoredBeforeNextStep
    /\ [][\A sid \in DOMAIN sessions' : Written(sid) => HoldsIteration(sessions'[sid])]_vars

\* C17 as amended: that, and every session record written at a transition to
\* reviewing, refining, generating or completed holds the ids of all the
\* records stored so far for the iteration; the record written at the
\* transition to failed holds the ids the orchestrator had been given by then.
C17_PersistedBeforeNextStep ==
    /\ []StoredBeforeNextStep
    /\ [][\A sid \in DOMAIN sessions' :
             Written(sid) /\ sessions'[sid].status # FAILED
                => HoldsIteration(sessions'[sid])]_vars

\* the session of the second pass is stored as refining with its two reviews
C17_Witness ==
    \E sid \in DOMAIN sessions :
        /\ sessions[sid].status = REFINING
        /\ sessions[sid].refinement_iterations = 1
        /\ Cardinality(CodesOf(sid)) = 2
        /\ \A c \in Critics :
              ReviewIdOf(sessions[sid], c) \in ReviewsOf(sessions[sid].current_code_id, c)

\* C18: a step leaves every stored artifact as it is, and a step that writes
\* an artifact adds one record under a key that held none; so the artifacts of
\* all the versions of a session stay in the store.
C18_ArtifactsImmutable ==
    [][/\ \A c \in DOMAIN codes : c \in DOMAIN codes' /\ codes'[c] = codes[c]
       /\ codes' # codes
            => \E c \in DOMAIN codes' :
                  /\ c \notin DOMAIN codes
                  /\ DOMAIN codes' = DOMAIN codes \cup {c}
                  /\ codes'[c].id = c]_vars

\* the refined artifact is stored and the one it refines is still there
C18_Witness ==
    \E sid \in DOMAIN sessions :
        /\ sessions[sid].status = REVIEWING
        /\ \E c1, c2 \in CodesOf(sid) :
              /\ codes[c1].version = 1
              /\ codes[c2].version = 2
              /\ sessions[sid].current_code_id = c2

\* C19: no artifact has two reviews of one critic or two rankings; an artifact
\* that has a ranking (its iteration came to the stop check) has exactly one
\* review of critic1, one of critic2 and that one ranking; and so has every
\* artifact of a session but the newest.
C19_OncePerArtifact ==
    \A a \in DOMAIN codes :
        /\ \A c \in Critics : Cardinality(ReviewsOf(a, c)) <= 1
        /\ Cardinality(RankingsOf(a)) <= 1
        /\ (RankingsOf(a) # {} \/ \E b \in CodesOf(codes[a].session_id) : b > a)
              => /\ \A c \in Critics : Cardinality(ReviewsOf(a, c)) = 1
                 /\ Cardinality(RankingsOf(a)) = 1

\* three iterations came to their stop check
C19_Witness ==
    \E sid \in DOMAIN sessions :
        /\ Cardinality(CodesOf(sid)) = 3
        /\ \A a \in CodesOf(sid) :
              /\ Cardinality(RankingsOf(a)) = 1
              /\ \A c \in Critics : Cardinality(ReviewsOf(a, c)) = 1

\* --------------------------------------- a request after an earlier session

\* What the run of an earlier request "r2" left behind: its ranking scored
\* (0.2, 0.1), so its session completed in the first pass.
EarlierSession ==
    [NewSession(1, "r2", COMPLETED) EXCEPT
        !.current_code_id = 2, !.critic1_review_id = 3, !.critic2_review_id = 4,
        !.ranking_id = 5]
EarlierRequest == [status |-> COMPLETED, session_id |-> 1]
EarlierCode ==
    [id |-> 2, request_id |-> "r2", session_id |-> 1, version |-> 1,
     generated_code |-> "code", error |-> FALSE]
EarlierReview(c) ==
    [id |-> 2 + c, session_id |-> 1, code_id |-> 2, critic_type |-> c, error |-> FALSE]
EarlierRanking ==
    [NoRanking EXCEPT !.id = 5, !.session_id = 1, !.code_id = 2,
                      !.critic1_review_id = 3, !.critic2_review_id = 4,
                      !.critic1_score = 2, !.critic2_score = 1]

\* The task of "r2" has returned and its records are in the store; "r1" has
\* not been submitted yet.
InitAfter ==
    /\ clients = AllRequests
    /\ requests = Put(<<>>, "r2", EarlierRequest)
    /\ sessions = Put(<<>>, 1, EarlierSession)
    /\ codes = Put(<<>>, 2, EarlierCode)
    /\ reviews = Put(Put(<<>>, 3, EarlierReview(1)), 4, EarlierReview(2))
    /\ rankings = Put(<<>>, 5, EarlierRanking)
    /\ uuid = 5
    /\ pc = [r \in AllRequests |-> IF r = "r2" THEN "returned" ELSE "idle"]
    /\ session = [r \in AllRequests |-> IF r = "r2" THEN EarlierSession ELSE NoSession]
    /\ request = [r \in AllRequests |-> IF r = "r2" THEN EarlierRequest ELSE NewRequest]
    /\ generated_code = [r \in AllRequests |-> IF r = "r2" THEN EarlierCode ELSE NoCode]
    /\ current_code = [r \in AllRequests |-> NoCode]
    /\ refine_ranking = [r \in AllRequests |-> NoRanking]
    /\ refine_review = [r \in AllRequests |-> [c \in Critics |-> NoReview]]
    /\ ranking = [r \in AllRequests |-> IF r = "r2" THEN EarlierRanking ELSE NoRanking]
    /\ kpc = [r \in AllRequests |-> [c \in Critics |-> "idle"]]
    /\ kreview = [r \in AllRequests |->
                    [c \in Critics |-> IF r = "r2" THEN EarlierReview(c) ELSE NoReview]]
    /\ request_id = [r \in AllRequests |-> r]
    /\ LLMService_init
    /\ emptyCodes = MaxEmptyCodes
    /\ modelFaults = 0
    /\ storeFaults = 0
    /\ arg = NoFun
    /\ ret = NoFun

SpecAfter == InitAfter /\ [][Next]_vars

\* the reads of _refine_code that have returned when the task is at pc[r]

\* C20: in the generate step of a pass after the first, the code that
\* _refine_code has read is the newest stored artifact of the task's own
\* session, that of the pass before; the ranking it has read is the ranking of
\* that artifact and the reviews it has read are critic1's and critic2's
\* reviews of that artifact, those the ranking names, all of the same session;
\* and the artifact then built has that artifact's version plus 1.
C20_RefineInputs ==
    \A r \in AllRequests :
        LET sid  == session[r].id
            prev == Latest(CodesOf(sid))
            HasReadCode == Refining(r) /\ pc[r] # "f_get_code"
            HasReadRanking == Refining(r) /\ pc[r] \notin {"f_get_code", "f_get_ranking"}
            HasReadReview(c) ==
                /\ Refining(r)
                /\ pc[r] \in (IF c = 1 THEN {"f_get_review2"} ELSE {})
                             \cup {"g_call", "g_set_code"}
        IN  /\ HasReadCode
                => /\ current_code[r] = codes[prev]
                   /\ current_code[r].session_id = sid
                   /\ current_code[r].id = session[r].current_code_id
            /\ HasReadRanking
                => /\ refine_ranking[r].id \in DOMAIN rankings
                   /\ refine_ranking[r] = rankings[refine_ranking[r].id]
                   /\ refine_ranking[r].code_id = prev
                   /\ refine_ranking[r].session_id = sid
                   /\ refine_ranking[r].id = Latest(RankingsIn(sid))
            /\ \A c \in Critics :
                  HasReadReview(c)
                    => /\ refine_review[r][c].id \in ReviewsOf(prev, c)
                       /\ refine_review[r][c] = reviews[refine_review[r][c].id]
                       /\ refine_review[r][c].session_id = sid
                       /\ refine_review[r][c].id
                            = (IF c = 1 THEN refine_ranking[r].critic1_review_id
                                        ELSE refine_ranking[r].critic2_review_id)
            /\ (Refining(r) /\ pc[r] = "g_set_code")
                => /\ generated_code[r].version = codes[prev].version + 1
                   /\ generated_code[r].session_id = sid
                   /\ generated_code[r].id > refine_ranking[r].id

\* the second refinement of a session, built while the records of its first
\* pass and those of an earlier session are in the store
C20_Witness ==
    \E r \in AllRequests :
        /\ pc[r] = "g_set_code"
        /\ generated_code[r].version = 3
        /\ Cardinality(RankingsIn(session[r].id)) = 2
        /\ \E sid \in DOMAIN sessions : sid # session[r].id /\ CodesOf(sid) # {}

\* ------------------------------------------ start attempts on their own

\* What the store may hold for request "r1" when a start is attempted: nothing
\* (the key expired), the request as generate_code stored it, the request as
\* the except block of start_generation_workflow stored it, or the request and
\* the session of a workflow in any later status.
StoredBefore ==
    {[requests |-> <<>>, sessions |-> <<>>, uuid |-> 0],
     [requests |-> Put(<<>>, "r1", NewRequest), sessions |-> <<>>, uuid |-> 0],
     [requests |-> Put(<<>>, "r1", [NewRequest EXCEPT !.status = FAILED]),
      sessions |-> <<>>, uuid |-> 0]}
    \cup {[requests |-> Put(<<>>, "r1", [status |-> st, session_id |-> 1]),
           sessions |-> Put(<<>>, 1, NewSession(1, "r1", st)),
           uuid |-> 1] : st \in GenerationStatus \ {PENDING}}

\* start_generation_workflow(request) has been called twice for request "r1":
\* both background tasks are about to read the request back.
InitStart ==
    /\ \E b \in StoredBefore :
          /\ requests = b.requests
          /\ sessions = b.sessions
          /\ uuid = b.uuid
    /\ codes = <<>>
    /\ reviews = <<>>
    /\ rankings = <<>>
    /\ pc = [r \in AllRequests |-> "w_get"]
    /\ session = [r \in AllRequests |-> NoSession]
    /\ request = [r \in AllRequests |-> NewRequest]
    /\ generated_code = [r \in AllRequests |-> NoCode]
    /\ current_code = [r \in AllRequests |-> NoCode]
    /\ refine_ranking = [r \in AllRequests |-> NoRanking]
    /\ refine_review = [r \in AllRequests |-> [c \in Critics |-> NoReview]]
    /\ ranking = [r \in AllRequests |-> NoRanking]
    /\ kpc = [r \in AllRequests |-> [c \in Critics |-> "idle"]]
    /\ kreview = [r \in AllRequests |-> [c \in Critics |-> NoReview]]
    /\ clients = {}
    /\ request_id = [r \in AllRequests |-> "r1"]
    /\ LLMService_init
    /\ emptyCodes = MaxEmptyCodes
    /\ modelFaults = 0
    /\ storeFaults = 0
    /\ arg = NoFun
    /\ ret = NoFun

\* the steps of a start attempt, up to the first generator call of the
\* workflow it starts
NextStart ==
    \E r \in AllRequests :
        \/ start_generation_workflow(r)
        \/ start_set_session(r)
        \/ start_set_request(r)
        \/ store_raise(r)
        \/ wrapper_except(r)

SpecStart == InitStart /\ [][NextStart]_vars

\* the stored request q is there and pending

\* the sessions stored for request q
SessionsOf(q) == {sid \in DOMAIN sessions : sessions[sid].request_id = q}

\* the start attempts for request q that went on into start_generation

\* C21: a step of a start attempt that has created no session, taken while the
\* stored request is absent or not pending, creates no session, issues no model
\* call and changes no stored record.
C21_NoEffectUnlessPending ==
    [][\A r \in AllRequests :
          /\ session[r].id = None
          /\ pc'[r] # pc[r]
          /\ ~(/\ request_id[r] \in DOMAIN requests
               /\ requests[request_id[r]].status = PENDING)
          => /\ storeVars' = storeVars
             /\ session'[r].id = None
             /\ uuid' = uuid
             /\ modelFaults' = modelFaults]_vars

\* C22: for every request at most one session is stored and at most one start
\* attempt has gone on into the workflow, however the attempts interleave.
C22_OneSessionPerRequest ==
    \A q \in AllRequests :
        /\ Cardinality(SessionsOf(q)) <= 1
        /\ Cardinality({r \in AllRequests :
                            request_id[r] = q /\ session[r].id # None}) <= 1

\* ------------------------------------------------ two sessions interleaved

\* The records of pass k (0, 1, 2) of the session of "r2", which got id 1: its
\* artifact, its two reviews and its ranking, with the ids they got when "r2"
\* ran before "r1" was submitted, every call answered without an error and
\* every ranking (0.6, 0.7).
PassCode(k) ==
    [id |-> 2 + 4 * k, request_id |-> "r2", session_id |-> 1, version |-> k + 1,
     generated_code |-> "code", error |-> FALSE]
PassReview(k, c) ==
    [id |-> 2 + 4 * k + c, session_id |-> 1, code_id |-> 2 + 4 * k, critic_type |-> c,
     error |-> FALSE]
PassRanking(k) ==
    [NoRanking EXCEPT !.id = 5 + 4 * k, !.session_id = 1, !.code_id = 2 + 4 * k,
                      !.critic1_review_id = 3 + 4 * k, !.critic2_review_id = 4 + 4 * k,
                      !.critic1_score = 6, !.critic2_score = 7]

\* the session of "r2" as line 82 wrote it in its third pass
ReviewingSession ==
    [NewSession(1, "r2", REVIEWING) EXCEPT
        !.current_code_id = 10, !.critic1_review_id = 7, !.critic2_review_id = 8,
        !.ranking_id = 9, !.refinement_iterations = 2]
ReviewingRequest == [status |-> REVIEWING, session_id |-> 1]

RECURSIVE PutAll(_, _)
PutAll(f, S) ==
    IF S = {} THEN f
    ELSE LET v == CHOOSE x \in S : TRUE IN PutAll(Put(f, v.id, v), S \ {v})

\* "r2" is in its third pass: both critic calls have returned and each branch
\* is about to store its review.  "r1" has not been submitted yet.  No model
\* call and no store operation fails from here on.
InitPair ==
    /\ clients = AllRequests
    /\ requests = Put(<<>>, "r2", ReviewingRequest)
    /\ sessions = Put(<<>>, 1, ReviewingSession)
    /\ codes = PutAll(<<>>, {PassCode(k) : k \in 0..2})
    /\ reviews = PutAll(<<>>, {PassReview(k, c) : k \in 0..1, c \in Critics})
    /\ rankings = PutAll(<<>>, {PassRanking(k) : k \in 0..1})
    /\ uuid = 12
    /\ pc = [r \in AllRequests |-> IF r = "r2" THEN "gather" ELSE "idle"]
    /\ session = [r \in AllRequests |-> IF r = "r2" THEN ReviewingSession ELSE NoSession]
    /\ request = [r \in AllRequests |-> IF r = "r2" THEN ReviewingRequest ELSE NewRequest]
    /\ generated_code = [r \in AllRequests |-> IF r = "r2" THEN PassCode(2) ELSE NoCode]
    /\ current_code = [r \in AllRequests |-> IF r = "r2" THEN PassCode(1) ELSE NoCode]
    /\ refine_ranking = [r \in AllRequests |-> IF r = "r2" THEN PassRanking(1) ELSE NoRanking]
    /\ refine_review = [r \in AllRequests |-> [c \in Critics |->
                            IF r = "r2" THEN PassReview(1, c) ELSE NoReview]]
    /\ ranking = [r \in AllRequests |-> IF r = "r2" THEN PassRanking(1) ELSE NoRanking]
    /\ kpc = [r \in AllRequests |-> [c \in Critics |->
                            IF r = "r2" THEN "k_set_review" ELSE "idle"]]
    /\ kreview = [r \in AllRequests |-> [c \in Critics |->
                            IF r = "r2" THEN PassReview(2, c) ELSE NoReview]]
    /\ request_id = [r \in AllRequests |-> r]
    /\ LLMService_init
    /\ emptyCodes = MaxEmptyCodes
    /\ modelFaults = MaxModelFaults
    /\ storeFaults = MaxStoreFaults
    /\ arg = NoFun
    /\ ret = NoFun

\* the steps of the workflow when nothing fails
NextPair ==
    \E r \in AllRequests :
        \/ generate_code(r)
        \/ start_generation_workflow(r)
        \/ start_set_session(r)
        \/ start_set_request(r)
        \/ generator_call(r)
        \/ set_code(r)
        \/ reviewing_set_session(r)
        \/ reviewing_set_request(r)
        \/ \E c \in Critics :
              \/ critic_get_request(r, c)
              \/ critic_call(r, c)
              \/ critic_set_review(r, c)
        \/ gather_join(r)
        \/ refining_set_session(r)
        \/ refining_set_request(r)
        \/ rank_get_request(r)
        \/ rank_call(r)
        \/ set_ranking(r)
        \/ completed_set_session(r)
        \/ completed_set_request(r)
        \/ next_set_session(r)
        \/ next_set_request(r)
        \/ refine_get_code(r)
        \/ refine_get_ranking(r)
        \/ refine_get_review(r)

SpecPair == InitPair /\ [][NextPair]_vars

\* the rankings of a session in the order they were created
RECURSIVE RankingSeq(_)
RankingSeq(K) ==
    IF K = {} THEN <<>>
    ELSE LET k == CHOOSE x \in K : \A y \in K : x <= y
         IN  <<rankings[k]>> \o RankingSeq(K \ {k})

\* _run_generation_cycle of one session on its own, from pass i on, given the
\* rankings resp that its ranking calls return one after the other: the
\* refinement_iterations it stops with (line 66, lines 103-113)
RECURSIVE AloneIterations(_, _, _)
AloneIterations(resp, i, max) ==
    IF i >= max \/ resp = <<>> THEN i
    ELSE IF should_stop_refinement(Head(resp),
                [NoSession EXCEPT !.refinement_iterations = i, !.max_iterations = max])
         THEN i
         ELSE AloneIterations(Tail(resp), i + 1, max)

\* C23: with two sessions of different requests interleaved, every artifact,
\* review and ranking stored carries the session id (an artifact also the
\* request id) of the task that stored it in that step, and a session whose
\* task has returned has the status, the refinement_iterations and the versions
\* 1..n that the cycle run on its own gives for the rankings the session got.
C23_SessionsIsolated ==
    /\ [](\A r \in AllRequests :
            pc[r] = "returned" =>
                LET sid  == session[r].id
                    resp == RankingSeq(RankingsIn(sid))
                    n    == AloneIterations(resp, 0, sessions[sid].max_iterations)
                IN  /\ sessions[sid].status = COMPLETED
                    /\ requests[request_id[r]].status = COMPLETED
                    /\ sessions[sid].request_id = request_id[r]
                    /\ sessions[sid].refinement_iterations = n
                    /\ Len(resp) = n + 1
                    /\ {codes[c].version : c \in CodesOf(sid)} = 1..n + 1
                    /\ Cardinality(CodesOf(sid)) = n + 1)
    /\ [][LET Stepped(r) == pc'[r] # pc[r] \/ kpc'[r] # kpc[r] IN
          /\ \A c \in DOMAIN codes' \ DOMAIN codes :
                \E r \in AllRequests :
                    /\ Stepped(r)
                    /\ codes'[c].session_id = session[r].id
                    /\ codes'[c].request_id = request_id[r]
          /\ \A v \in DOMAIN reviews' \ DOMAIN reviews :
                \E r \in AllRequests :
                    Stepped(r) /\ reviews'[v].session_id = session[r].id
          /\ \A k \in DOMAIN rankings' \ DOMAIN rankings :
                \E r \in AllRequests :
                    Stepped(r) /\ rankings'[k].session_id = session[r].id]_vars

\* both sessions have ended, "r1" after three passes, and the last ranking of
\* "r2" was created after "r1" had stored its first artifact
C23_Witness ==
    /\ \A r \in AllRequests : pc[r] = "returned"
    /\ sessions[session["r1"].id].refinement_iterations = 2
    /\ \E k \in RankingsIn(1), c \in CodesOf(session["r1"].id) : k > c

\* ------------------------------------------- the model operations on their own

\* A response text is a sequence of tokens: one character each, but for the
\* word "severity" in two spellings and the score markers, which the code
\* looks for as a whole.
Digit == {"0", "1", "2", "3", "4", "5", "7"}
DigitValue(t) ==
    CASE t = "0" -> 0 [] t = "1" -> 1 [] t = "2" -> 2 [] t = "3" -> 3
      [] t = "4" -> 4 [] t = "5" -> 5 [] t = "7" -> 7

\* str.lower() of a token
Lower(t) == IF t \in {"Severity", "SEVERITY"} THEN "severity" ELSE t

\* how many lines a review text of list lines, how many lines a review text of
\* any lines, how many parts a ranking response may have
MaxLines == 6
MaxMixedLines == 3
MaxParts == 3

\* the lines a review text is made of
ReviewLines ==
    {<<"-", " ", "a">>,
     <<"*", " ", "0">>,
     <<"1", ".", " ", "b">>,
     <<" ", " ", "2", ")", " ", "Severity", ":", " ", "7", " ">>,
     <<"SEVERITY">>,
     <<"1", ".", "a">>}

\* those that make the lists long enough for the cut
ListLines == {<<"-", " ", "a">>, <<"1", ".", " ", "b">>, <<"1", ".", "a">>}

ReviewTexts ==
    UNION {[1..n -> ListLines] : n \in 1..MaxLines}
    \cup UNION {[1..n -> ReviewLines] : n \in 1..MaxMixedLines}

\* str.strip() of a line
RECURSIVE lstrip(_)
lstrip(line) ==
    IF line # <<>> /\ Head(line) = " " THEN lstrip(Tail(line)) ELSE line
RECURSIVE rstrip(_)
rstrip(line) ==
    IF line # <<>> /\ line[Len(line)] = " "
    THEN rstrip(SubSeq(line, 1, Len(line) - 1)) ELSE line
strip(line) == rstrip(lstrip(line))

\* line[a:] and line[:n]
From(line, a) == SubSeq(line, a + 1, Len(line))
UpTo(line, n) == SubSeq(line, 1, IF Len(line) < n THEN Len(line) ELSE n)

\* line.startswith('- ') or line.startswith('* ')
StartsWithBullet(line) ==
    Len(line) >= 2 /\ line[1] \in {"-", "*"} /\ line[2] = " "

\* len(line) > 2 and line[0].isdigit() and line[1:3] in ['. ', ') ']
StartsWithNumber(line) ==
    Len(line) > 2 /\ line[1] \in Digit /\ line[2] \in {".", ")"} /\ line[3] = " "

\* llm_services.py lines 332-338: the marked lines, marker removed
RECURSIVE AllSuggestions(_)
AllSuggestions(lines) ==
    IF lines = <<>> THEN <<>>
    ELSE LET line == strip(Head(lines))
             rest == AllSuggestions(Tail(lines))
         IN  IF StartsWithBullet(line) THEN <<From(line, 2)>> \o rest
             ELSE IF StartsWithNumber(line) THEN <<From(line, 3)>> \o rest
             ELSE rest

\* every marked line is returned, however many there are
ExtractSuggestionsUncut(lines) == AllSuggestions(lines)

\* suggestions[:5] of line 353
ExtractSuggestions(lines) == UpTo(AllSuggestions(lines), 5)

\* review_text as one string: the lines with '\n' between them
RECURSIVE Join(_)
Join(lines) ==
    IF lines = <<>> THEN <<>>
    ELSE IF Len(lines) = 1 THEN Head(lines)
    ELSE Head(lines) \o <<"\n">> \o Join(Tail(lines))

Min(S) == CHOOSE x \in S : \A y \in S : x <= y

\* where re.search(r'severity[^\d]*(\d)', text.lower()) finds its digit: the
\* first digit after the first "severity"; 0 when there is no match
SeverityMatch(text) ==
    LET t == Join(text)
        M == {i \in 1..Len(t) : Lower(t[i]) = "severity"}
        D == IF M = {} THEN {} ELSE {j \in Min(M) + 1..Len(t) : t[j] \in Digit}
    IN  IF D = {} THEN 0 ELSE Min(D)

\* the digit found is taken as it is
ExtractSeverityUnclamped(text) ==
    LET j == SeverityMatch(text)
    IN  IF j = 0 THEN 3 ELSE DigitValue(Join(text)[j])

\* llm_services.py lines 341-348
ExtractSeverity(text) ==
    LET j == SeverityMatch(text)
    IN  IF j = 0 THEN 3
        ELSE LET parsed_severity == DigitValue(Join(text)[j])
                 low == IF parsed_severity < 5 THEN parsed_severity ELSE 5
             IN  IF low > 1 THEN low ELSE 1

ReviewError == <<<<"Error during review">>>>

\* the parts a ranking response is made of
ScoreParts ==
    {<<"CRITIC 1 SCORE:", " ", "1", ".", "4">>,
     <<"CRITIC 2 SCORE:", "0", ".", "5", "\n">>,
     <<"CRITIC 1 SCORE:", " ", "[", "0", ".", "7", "]">>,
     <<"critic 2 score:", " ", "0", ".", "2", " ">>,
     <<"CRITIC 2 SCORE:", " ", "1", ".", "2", ".", "3">>,
     <<"CRITIC 1 SCORE:", ".", " ">>,
     <<"CRITIC 1 SCORE:", " ", ".", "2", "a">>,
     <<"a", " ">>}

RECURSIVE Concat(_)
Concat(parts) == IF parts = <<>> THEN <<>> ELSE Head(parts) \o Concat(Tail(parts))

RankResponses == {Concat(p) : p \in UNION {[1..n -> ScoreParts] : n \in 0..MaxParts}}

Marker(n) == IF n = 1 THEN "CRITIC 1 SCORE:" ELSE "CRITIC 2 SCORE:"

\* \s* from position i on: the first position that holds no whitespace
RECURSIVE SkipSpace(_, _)
SkipSpace(t, i) ==
    IF i <= Len(t) /\ t[i] \in {" ", "\n"} THEN SkipSpace(t, i + 1) ELSE i

\* [0-9.]+ from position i on: the position after the longest run
RECURSIVE RunEnd(_, _)
RunEnd(t, i) ==
    IF i <= Len(t) /\ t[i] \in Digit \cup {"."} THEN RunEnd(t, i + 1) ELSE i

\* re.search(r'CRITIC n SCORE:\s*([0-9.]+)', response_text): group(1) of the
\* leftmost match, <<>> when there is none
ScoreMatch(t, n) ==
    LET M == {i \in 1..Len(t) :
                 t[i] = Marker(n) /\ RunEnd(t, SkipSpace(t, i + 1)) > SkipSpace(t, i + 1)}
    IN  IF M = {} THEN <<>>
        ELSE LET a == SkipSpace(t, Min(M) + 1)
             IN  SubSeq(t, a, RunEnd(t, a) - 1)

\* float(s) raises ValueError unless s has a digit and at most one point
FloatRaises(s) ==
    \/ Cardinality({i \in 1..Len(s) : s[i] = "."}) > 1
    \/ \A i \in 1..Len(s) : s[i] = "."

\* float(s) in tenths, rounded down: the digits before the point and the first
\* digit after it
FloatTenths(s) ==
    LET P == {i \in 1..Len(s) : s[i] = "."}
        p == IF P = {} THEN Len(s) + 1 ELSE Min(P)
        DigitsValue[i \in 0..Len(s)] ==
            IF i = 0 THEN 0
            ELSE IF i >= p THEN DigitsValue[i - 1]
            ELSE DigitsValue[i - 1] * 10 + DigitValue(s[i])
    IN  DigitsValue[Len(s)] * 10 + (IF p < Len(s) THEN DigitValue(s[p + 1]) ELSE 0)

\* llm_services.py lines 419-427 for critic n: the score in tenths, or the
\* ValueError of float()
ExtractScore(t, n) ==
    LET s == ScoreMatch(t, n)
    IN  IF s = <<>> THEN [raises |-> FALSE, score |-> 5]
        ELSE IF FloatRaises(s) THEN [raises |-> TRUE, score |-> 0]
        ELSE LET v == FloatTenths(s)
             IN  [raises |-> FALSE, score |-> IF v > MaxScore THEN MaxScore ELSE v]

\* What the API behind an operation does: the first call raises or answers,
\* the error carries "429" and "quota" or not, the generator's retry raises or
\* answers.
LLMArgs ==
    [f : {"generate"}, raises : BOOLEAN, rate_limit : BOOLEAN, retry_raises : BOOLEAN]
    \cup [f : {"critique"}, raises : BOOLEAN, text : ReviewTexts]
    \cup [f : {"rank"}, raises : BOOLEAN, text : RankResponses]

\* the generator's exception is raised again after the retry
get_generator_response_raising(a) ==
    IF ~a.raises \/ (a.rate_limit /\ ~a.retry_raises)
    THEN [f |-> "generate", raised |-> FALSE, code |-> "code",
          explanation |-> "Code generated"]
    ELSE [f |-> "generate", raised |-> TRUE, code |-> "", explanation |-> ""]

\* the retry made after any error of the first attempt, without a wait
get_generator_response_retrying(a) ==
    IF ~a.raises
    THEN [f |-> "generate", raised |-> FALSE, code |-> "code",
          explanation |-> "Code generated",
          events |-> <<"_wait_for_gemini_rate_limit", "generate_content">>]
    ELSE [f |-> "generate", raised |-> FALSE,
          code |-> IF a.retry_raises THEN ErrorSentinel ELSE "code",
          explanation |-> IF a.retry_raises THEN "Generation failed" ELSE "Code generated",
          events |-> <<"_wait_for_gemini_rate_limit", "generate_content",
                       "generate_content">>]

\* get_generator_response: what it returns for what the API does, and the
\* awaits it went through.  The first attempt (lines 122-155) waits for the
\* request interval and calls the model; when it raises and the error carries
\* "429" and "quota" (a.rate_limit), _handle_rate_limit_error sleeps and the
\* model is called once more (lines 162-189); every other way ends at line 193.
get_generator_response(a) ==
    LET first == <<"_wait_for_gemini_rate_limit", "generate_content">>
        retry == <<"sleep", "generate_content">>
    IN  IF ~a.raises
        THEN [f |-> "generate", raised |-> FALSE, code |-> "code",
              explanation |-> "Code generated", events |-> first]
        ELSE IF ~a.rate_limit
        THEN [f |-> "generate", raised |-> FALSE, code |-> ErrorSentinel,
              explanation |-> "Generation failed", events |-> first]
        ELSE IF ~a.retry_raises
        THEN [f |-> "generate", raised |-> FALSE, code |-> "code",
              explanation |-> "Code generated", events |-> first \o retry]
        ELSE [f |-> "generate", raised |-> FALSE, code |-> ErrorSentinel,
              explanation |-> "Generation failed", events |-> first \o retry]

\* get_critic_review: lines 331-353 on the review text, or lines 355-358
get_critic_review(a) ==
    IF a.raises
    THEN [f |-> "critique", raised |-> FALSE, review_text |-> ReviewError,
          suggestions |-> <<>>, severity |-> 5]
    ELSE [f |-> "critique", raised |-> FALSE, review_text |-> a.text,
          suggestions |-> ExtractSuggestions(a.text),
          severity |-> ExtractSeverity(a.text)]

\* rank_reviews_and_plan: lines 413-434 on the response, or lines 436-439
rank_reviews_and_plan(a) ==
    LET s1 == ExtractScore(a.text, 1)
        s2 == ExtractScore(a.text, 2)
        res == RankResult(a.raises \/ s1.raises \/ s2.raises, <<s1.score, s2.score>>)
    IN  [f |-> "rank", raised |-> FALSE,
         ranking_explanation |-> res.ranking_explanation,
         critic1_score |-> res.critic1_score, critic2_score |-> res.critic2_score]

InitLLM ==
    /\ InitWorkflow
    /\ clients = {}
    /\ arg \in LLMArgs
    /\ ret = NoFun

Returns(f, result) ==
    /\ arg.f = f
    /\ ret = NoFun
    /\ ret' = result
    /\ UNCHANGED <<storeVars, uuid, taskVars, critVars, envVars, arg>>

call_get_generator_response == Returns("generate", get_generator_response(arg))
call_get_critic_review      == Returns("critique", get_critic_review(arg))
call_rank_reviews_and_plan  == Returns("rank", rank_reviews_and_plan(arg))

NextLLM ==
    \/ call_get_generator_response
    \/ call_get_critic_review
    \/ call_rank_reviews_and_plan

SpecLLM == InitLLM /\ [][NextLLM]_vars

\* C24: generate, critique and rank never raise: when the API behind fails for
\* good, generate returns the error sentinel as code with a failure
\* explanation, critique returns an error review text with no suggestions, and
\* rank returns the scores (0.1, 0.1) with the failure marker in the
\* explanation.
C24_NeverRaises ==
    ret # NoFun /\ ret.f \in {"generate", "critique", "rank"} =>
        LET ApiFailed == IF arg.f = "generate"
                         THEN arg.raises /\ ~(arg.rate_limit /\ ~arg.retry_raises)
                         ELSE arg.raises
        IN  /\ ~ret.raised
            /\ ApiFailed /\ ret.f = "generate" =>
                  ret.code = ErrorSentinel /\ ret.explanation = "Generation failed"
            /\ ApiFailed /\ ret.f = "critique" =>
                  ret.review_text = ReviewError /\ ret.suggestions = <<>>
            /\ ApiFailed /\ ret.f = "rank" =>
                  /\ ret.critic1_score = RankFailScore
                  /\ ret.critic2_score = RankFailScore
                  /\ HasRankError(ret)

C24_Witness ==
    /\ ret # NoFun
    /\ ret.f = "generate"
    /\ arg.raises /\ arg.rate_limit /\ arg.retry_raises

\* C26: the severity a critic call returns is in 1..5 for every review text,
\* and with it every severity_rating the workflow builds a CriticReview with:
\* 3 when the text does not mention severity, and when position i holds the
\* first "severity" of the text, in any case, and j the first digit after it,
\* that digit clamped to [1, 5]: 5 for "Severity: 7".
C26_SeverityInRange ==
    ret # NoFun /\ ret.f = "critique" =>
        /\ ret.severity \in 1..5
        /\ ~arg.raises =>
              LET t == Join(arg.text)
                  Clamp(lo, v, hi) == IF v < lo THEN lo ELSE IF v > hi THEN hi ELSE v
              IN  /\ (\A i \in 1..Len(t) : Lower(t[i]) # "severity") => ret.severity = 3
                  /\ \A i, j \in 1..Len(t) :
                        /\ i < j
                        /\ Lower(t[i]) = "severity"
                        /\ \A h \in 1..i - 1 : Lower(t[h]) # "severity"
                        /\ t[j] \in Digit
                        /\ \A h \in i + 1..j - 1 : t[h] \notin Digit
                        => ret.severity = Clamp(1, DigitValue(t[j]), 5)

C26_Witness ==
    /\ ret # NoFun
    /\ ret.f = "critique"
    /\ ~arg.raises
    /\ arg.text = <<<<" ", " ", "2", ")", " ", "Severity", ":", " ", "7", " ">>>>
    /\ ret.severity = 5

\* C27: for every ranking response the two scores are in [0, 1]; the score of a
\* critic whose marker is nowhere in the response is 0.5, so a response without
\* markers gives (0.5, 0.5); and "CRITIC 1 SCORE: 1.4" gives 1.0 for critic 1.
C27_ScoresDefaultOrClamped ==
    ret # NoFun /\ ret.f = "rank" =>
        /\ ret.critic1_score \in 0..MaxScore
        /\ ret.critic2_score \in 0..MaxScore
        /\ ~arg.raises =>
              /\ (\A i \in 1..Len(arg.text) : arg.text[i] # Marker(1))
                    => ret.critic1_score = 5
              /\ (\A i \in 1..Len(arg.text) : arg.text[i] # Marker(2))
                    => ret.critic2_score = 5
              /\ arg.text = <<"CRITIC 1 SCORE:", " ", "1", ".", "4">>
                    => ret.critic1_score = MaxScore

\* C28: a ranking response that the API returned is never turned into a ranking
\* failure, whatever follows its score markers: a malformed number is resolved
\* by the defaults of the parser.
C28_MalformedFallsBack ==
    ret # NoFun /\ ret.f = "rank" /\ ~arg.raises => ~HasRankError(ret)

\* C29: the suggestions a critic call returns are at most 5, and they are the
\* first lines of the text that carry a list marker, as many as there are up to
\* 5, in the order of the text, each without its marker ("- " and "* " are two
\* characters, "1. " and "1) " three): the k-th suggestion is the k-th marked
\* line.
C29_SuggestionsFirstFive ==
    ret # NoFun /\ ret.f = "critique" /\ ~arg.raises =>
        LET MarkedLines ==
                {i \in 1..Len(arg.text) :
                    \/ StartsWithBullet(strip(arg.text[i]))
                    \/ StartsWithNumber(strip(arg.text[i]))}
            MarkerRemoved(line) ==
                IF line[1] \in {"-", "*"} THEN From(line, 2) ELSE From(line, 3)
        IN  /\ Len(ret.suggestions) <= 5
            /\ Len(ret.suggestions) =
                  (IF Cardinality(MarkedLines) < 5 THEN Cardinality(MarkedLines) ELSE 5)
            /\ \A k \in 1..Len(ret.suggestions) :
                  \E i \in MarkedLines :
                      /\ Cardinality({h \in MarkedLines : h < i}) = k - 1
                      /\ ret.suggestions[k] = MarkerRemoved(strip(arg.text[i]))

\* six marked lines, not all the same, of which five are returned
C29_Witness ==
    /\ ret # NoFun
    /\ ret.f = "critique"
    /\ ~arg.raises
    /\ Len(arg.text) = 6
    /\ \A i \in 1..6 : StartsWithBullet(arg.text[i]) \/ StartsWithNumber(arg.text[i])
    /\ arg.text[1] # arg.text[6]
    /\ Len(ret.suggestions) = 5

\* C25: a generator call that fails does not fail the session.  Whether the
\* call failed or not, it leaves the session as it is and yields an artifact
\* with the next version; the artifact is then stored and the session goes to
\* reviewing, unless that store operation raises.  A session is set to failed
\* only in a step in which a store operation raises or the exception of a
\* critic branch, raised by a store operation, comes out of gather: without a
\* failing store operation no status of a session or request, stored or in a
\* task, is ever failed.
C25_GeneratorFailureAbsorbed ==
    /\ [](storeFaults = 0 =>
            /\ \A sid \in DOMAIN sessions : sessions[sid].status # FAILED
            /\ \A q \in DOMAIN requests : requests[q].status # FAILED
            /\ \A r \in AllRequests :
                  session[r].status # FAILED /\ request[r].status # FAILED)
    /\ [][\A r \in AllRequests :
            /\ pc[r] = "g_call" /\ pc'[r] # pc[r] =>
                  /\ pc'[r] = "g_set_code"
                  /\ session'[r] = session[r]
                  /\ generated_code'[r].session_id = session[r].id
                  /\ generated_code'[r].version = Cardinality(CodesOf(session[r].id)) + 1
            /\ pc[r] = "g_set_code" /\ pc'[r] # pc[r] /\ storeFaults' = storeFaults =>
                  /\ generated_code[r].id \in DOMAIN codes'
                  /\ codes'[generated_code[r].id] = generated_code[r]
                  /\ session'[r].status = REVIEWING
                  /\ session'[r].current_code_id = generated_code[r].id
                  /\ pc'[r] = "c_set_session"
            /\ session[r].status # FAILED /\ session'[r].status = FAILED =>
                  \/ storeFaults' = storeFaults + 1
                  \/ \E c \in Critics : kpc[r][c] = "raised"]_vars

\* a refinement failed, its artifact was stored as version 2 and reviewed, and
\* the session completed without any store failure
C25_Witness ==
    /\ storeFaults = 0
    /\ \E c \in DOMAIN codes :
          /\ codes[c].error
          /\ codes[c].version = 2
          /\ RankingsOf(c) # {}
          /\ codes[c].session_id \in DOMAIN sessions
          /\ sessions[codes[c].session_id].status = COMPLETED

\* ------------------------------------------------ GET /generation-status

\* A run in which a client asks for the status of a request once; one store
\* operation may fail in it and no model call does.
InitStatus ==
    /\ requests = <<>>
    /\ sessions = <<>>
    /\ codes = <<>>
    /\ reviews = <<>>
    /\ rankings = <<>>
    /\ uuid = 0
    /\ pc = [r \in AllRequests |-> "idle"]
    /\ session = [r \in AllRequests |-> NoSession]
    /\ request = [r \in AllRequests |-> NewRequest]
    /\ generated_code = [r \in AllRequests |-> NoCode]
    /\ current_code = [r \in AllRequests |-> NoCode]
    /\ refine_ranking = [r \in AllRequests |-> NoRanking]
    /\ refine_review = [r \in AllRequests |-> [c \in Critics |-> NoReview]]
    /\ ranking = [r \in AllRequests |-> NoRanking]
    /\ kpc = [r \in AllRequests |-> [c \in Critics |-> "idle"]]
    /\ kreview = [r \in AllRequests |-> [c \in Critics |-> NoReview]]
    /\ clients = {"r1"}
    /\ request_id = [r \in AllRequests |-> r]
    /\ LLMService_init
    /\ emptyCodes = MaxEmptyCodes
    /\ modelFaults = MaxModelFaults
    /\ storeFaults = MaxStoreFaults - 1
    /\ arg = NoFun
    /\ ret = NoFun

\* the answer of an endpoint that raised HTTPException(status_code=code)
HTTPException(code) == [f |-> "status", status_code |-> code]

\* get_generation_status, lines 143-147: the request is read; 404 when it is
\* not there, 500 when the store raises
status_get_request(q) ==
    /\ arg = NoFun
    /\ ret = NoFun
    /\ \/ /\ q \in DOMAIN requests
          /\ arg' = [f |-> "status", request_id |-> q, request |-> requests[q]]
          /\ UNCHANGED <<ret, storeFaults>>
       \/ /\ q \notin DOMAIN requests
          /\ arg' = [f |-> "status", request_id |-> q, request |-> NewRequest]
          /\ ret' = HTTPException(404)
          /\ UNCHANGED storeFaults
       \/ /\ storeFaults < MaxStoreFaults
          /\ storeFaults' = storeFaults + 1
          /\ arg' = [f |-> "status", request_id |-> q, request |-> NewRequest]
          /\ ret' = HTTPException(500)
    /\ UNCHANGED <<storeVars, uuid, taskVars, critVars, clients, request_id, emptyCodes, rateVars, modelFaults>>

\* lines 150-163: the session under the request's session_id is read and the
\* answer is built
status_get_session(q) ==
    /\ arg # NoFun
    /\ arg.f = "status"
    /\ arg.request_id = q
    /\ ret = NoFun
    /\ \/ /\ ret' = IF arg.request.session_id \in DOMAIN sessions
                    THEN LET s == sessions[arg.request.session_id] IN
                         [f |-> "status", status_code |-> 200,
                          status |-> arg.request.status,
                          session_id |-> arg.request.session_id,
                          current_iteration |-> s.refinement_iterations,
                          max_iterations |-> s.max_iterations]
                    ELSE [f |-> "status", status_code |-> 200,
                          status |-> arg.request.status,
                          session_id |-> None,
                          current_iteration |-> 0,
                          max_iterations |-> DefaultMaxIterations]
          /\ UNCHANGED storeFaults
       \/ /\ storeFaults < MaxStoreFaults
          /\ storeFaults' = storeFaults + 1
          /\ ret' = HTTPException(500)
    /\ UNCHANGED <<storeVars, uuid, taskVars, critVars, clients, request_id, emptyCodes, rateVars, modelFaults, arg>>

NextStatus ==
    \/ Next
    \/ \E q \in AllRequests :
          \/ status_get_request(q)
          \/ status_get_session(q)

SpecStatus == InitStatus /\ [][NextStatus]_vars

\* C30: when GET /generation-status answers, it answers 404 exactly for a
\* request id that is not in the store; otherwise it answers with the status
\* read from the request, and, whenever a session of that request is in the
\* store, with that session's id, refinement_iterations and max_iterations:
\* session_id null and current_iteration 0 are answered only while no session
\* of the request has been stored.
C30_StatusOfSession ==
    [][ret = NoFun /\ ret' # NoFun /\ ret'.f = "status" /\ ret'.status_code # 500 =>
          LET q == arg'.request_id IN
          /\ ret'.status_code = 404 <=> q \notin DOMAIN requests
          /\ ret'.status_code = 200 =>
                /\ ret'.status = arg'.request.status
                /\ SessionsOf(q) # {} =>
                      /\ ret'.session_id \in SessionsOf(q)
                      /\ ret'.current_iteration =
                            sessions[ret'.session_id].refinement_iterations
                      /\ ret'.max_iterations = sessions[ret'.session_id].max_iterations
                /\ ret'.session_id = None =>
                      SessionsOf(q) = {} /\ ret'.current_iteration = 0]_vars

\* ------------------------- GET /generation-result and GET /final-code

\* A run in which a client asks for the result of a session once, while the
\* workflow runs; one generator call may answer an empty code block, one store
\* operation of get_generation_result may fail, and no model call and no
\* store operation of the workflow does.
InitResult ==
    /\ requests = <<>>
    /\ sessions = <<>>
    /\ codes = <<>>
    /\ reviews = <<>>
    /\ rankings = <<>>
    /\ uuid = 0
    /\ pc = [r \in AllRequests |-> "idle"]
    /\ session = [r \in AllRequests |-> NoSession]
    /\ request = [r \in AllRequests |-> NewRequest]
    /\ generated_code = [r \in AllRequests |-> NoCode]
    /\ current_code = [r \in AllRequests |-> NoCode]
    /\ refine_ranking = [r \in AllRequests |-> NoRanking]
    /\ refine_review = [r \in AllRequests |-> [c \in Critics |-> NoReview]]
    /\ ranking = [r \in AllRequests |-> NoRanking]
    /\ kpc = [r \in AllRequests |-> [c \in Critics |-> "idle"]]
    /\ kreview = [r \in AllRequests |-> [c \in Critics |-> NoReview]]
    /\ clients = {"r1"}
    /\ request_id = [r \in AllRequests |-> r]
    /\ LLMService_init
    /\ emptyCodes = 0
    /\ modelFaults = MaxModelFaults
    /\ storeFaults = MaxStoreFaults - 1
    /\ arg = NoFun
    /\ ret = NoFun

\* generated_codes.sort(key=lambda x: x.version): the records of S in a list,
\* each once, versions never decreasing; records of one version keep the
\* order the scan gave them, which is any order
SortByVersion(S) ==
    {q \in [1..Cardinality(S) -> S] :
        \A i, j \in 1..Cardinality(S) :
            i < j => q[i] # q[j] /\ q[i].version <= q[j].version}

\* get_generation_result caught an exception of the store (lines 407-409) and
\* returned None: both endpoints answer 404
result_except(e) ==
    /\ arg # NoFun
    /\ arg.f = "result"
    /\ arg.endpoint = e
    /\ ret = NoFun
    /\ storeFaults < MaxStoreFaults
    /\ storeFaults' = storeFaults + 1
    /\ ret' = [f |-> "result", status_code |-> 404]
    /\ UNCHANGED <<storeVars, uuid, taskVars, critVars, clients, request_id, emptyCodes, rateVars,
                   modelFaults, arg>>

\* lines 341-345 of get_generation_result, called by endpoint e for session
\* sid: the session is read; None, and with it 404, when it is not there.
\* known and stored record what the store held when the client called.
result_get_session(e, sid) ==
    /\ arg = NoFun
    /\ ret = NoFun
    /\ arg' = [f |-> "result", endpoint |-> e, session_id |-> sid,
               known |-> sid \in DOMAIN sessions, stored |-> CodesOf(sid),
               at |-> "get_request",
               session |-> IF sid \in DOMAIN sessions THEN sessions[sid] ELSE NoSession,
               keys |-> {}, generated_codes |-> <<>>]
    /\ ret' = IF sid \in DOMAIN sessions THEN NoFun
              ELSE [f |-> "result", status_code |-> 404]
    /\ UNCHANGED <<storeVars, uuid, taskVars, critVars, envVars>>

\* lines 348-352: the request of the session is read; None when it is not there
result_get_request(e) ==
    /\ arg # NoFun
    /\ arg.f = "result"
    /\ arg.endpoint = e
    /\ arg.at = "get_request"
    /\ ret = NoFun
    /\ IF arg.session.request_id \in DOMAIN requests
       THEN arg' = [arg EXCEPT !.at = "scan"] /\ UNCHANGED ret
       ELSE ret' = [f |-> "result", status_code |-> 404] /\ UNCHANGED arg
    /\ UNCHANGED <<storeVars, uuid, taskVars, critVars, envVars>>

\* line 360: the scan for code:* starts; it returns every key that is there
\* from its start to its end
result_scan(e) ==
    /\ arg # NoFun
    /\ arg.f = "result"
    /\ arg.endpoint = e
    /\ arg.at = "scan"
    /\ ret = NoFun
    /\ arg' = [arg EXCEPT !.at = "get_codes", !.keys = DOMAIN codes]
    /\ UNCHANGED <<ret, storeVars, uuid, taskVars, critVars, envVars>>

\* lines 360-371: the scan ends, having returned the keys it started with and
\* any of the keys set since; the codes of the session are kept and sorted
result_get_codes(e) ==
    /\ arg # NoFun
    /\ arg.f = "result"
    /\ arg.endpoint = e
    /\ arg.at = "get_codes"
    /\ ret = NoFun
    /\ \E keys \in SUBSET DOMAIN codes :
          /\ arg.keys \subseteq keys
          /\ \E list \in SortByVersion({codes[c] : c \in keys \cap CodesOf(arg.session_id)}) :
                arg' = [arg EXCEPT !.at = "get_reviews", !.keys = {},
                                   !.generated_codes = list]
    /\ UNCHANGED <<ret, storeVars, uuid, taskVars, critVars, envVars>>

\* lines 374-405, the reviews and the ranking of the session read, and the
\* endpoint's answer: server.py lines 125-129 for /generation-result, lines
\* 176-189 for /final-code, which answers 404 when final_code is None or empty.
\* final_code is <<>> for None and <<code>> for a string.
result_get_reviews(e) ==
    /\ arg # NoFun
    /\ arg.f = "result"
    /\ arg.endpoint = e
    /\ arg.at = "get_reviews"
    /\ ret = NoFun
    /\ LET list == arg.generated_codes
           final_code == IF list # <<>> THEN <<list[Len(list)].generated_code>> ELSE <<>>
       IN  ret' = IF e = "final-code" /\ final_code \in {<<>>, <<"">>}
                  THEN [f |-> "result", status_code |-> 404]
                  ELSE [f |-> "result", status_code |-> 200,
                        session |-> arg.session,
                        generated_codes |-> list,
                        critic_reviews |->
                            {v \in {arg.session.critic1_review_id,
                                    arg.session.critic2_review_id} : v \in DOMAIN reviews},
                        rankings |-> {arg.session.ranking_id} \cap DOMAIN rankings,
                        final_code |-> final_code]
    /\ UNCHANGED <<arg, storeVars, uuid, taskVars, critVars, envVars>>

NextResult ==
    \/ NextPair
    \/ \E e \in {"generation-result", "final-code"} :
          \/ \E sid \in 1..2 : result_get_session(e, sid)
          \/ result_get_request(e)
          \/ result_scan(e)
          \/ result_get_codes(e)
          \/ result_get_reviews(e)
          \/ result_except(e)

SpecResult == InitResult /\ [][NextResult]_vars

\* C31: GET /generation-result and GET /final-code answer 404 for a session
\* that is not in the store, and GET /final-code also while the session has no
\* artifact; for a session that is in the store (with an artifact, for
\* /final-code) they answer 200, the artifacts list holds every artifact the
\* session had when the client called and only artifacts of that session, each
\* once, in increasing version order, and final_code is the payload of an
\* artifact of the session whose version is the highest of the list (for
\* /final-code: at least the highest the session had when the client called).
C31_ResultOfSession ==
    ret # NoFun /\ ret.f = "result" =>
        LET sid      == arg.session_id
            list     == ret.generated_codes
            Payloads == {<<codes[c].generated_code>> : c \in
                            {c \in CodesOf(sid) :
                                \A d \in arg.stored : codes[d].version <= codes[c].version}}
        IN  /\ ~arg.known => ret.status_code = 404
            /\ arg.known /\ (arg.endpoint = "final-code" => arg.stored # {})
                  => ret.status_code = 200
            /\ arg.endpoint = "final-code" /\ CodesOf(sid) = {} => ret.status_code = 404
            /\ ret.status_code = 200 /\ arg.endpoint = "generation-result" =>
                  /\ \A c \in arg.stored : \E i \in 1..Len(list) : list[i] = codes[c]
                  /\ \A i \in 1..Len(list) :
                        \E c \in CodesOf(sid) : list[i] = codes[c]
                  /\ \A i, j \in 1..Len(list) : i < j => list[i].version < list[j].version
                  /\ list = <<>> => ret.final_code = <<>>
                  /\ list # <<>> => ret.final_code = <<list[Len(list)].generated_code>>
            /\ ret.status_code = 200 /\ arg.endpoint = "final-code" =>
                  ret.final_code \in Payloads

\* ------------------------------------------------- ConsensusAnalyzer

\* the disagreement markers a critic text is scanned for
DisagreementKeywords ==
    {"wrong", "incorrect", "disagree", "however", "but", "actually", "instead"}

\* Longest text, in words, given to the analyzer.
MaxWords == 2

\* the texts handed to the analyzer: sequences of words
AnalyzerTexts ==
    UNION {[1..n -> {"good", "fine", "but", "wrong", "instead"}] : n \in 0..MaxWords}

\* every marker found in a critic text is a conflict of its own
AnalyzeConflictsPerHit(coderText, critic1Text, critic2Text) ==
    LET Hits(t) == Cardinality({i \in 1..Len(t) : t[i] \in DisagreementKeywords})
        n == Hits(critic1Text) + Hits(critic2Text)
    IN  [conflicts |-> n,
         strategy |-> "consensus_based",
         decision |-> IF n = 0 THEN "general agreement"
                      ELSE IF n = 1 THEN "mixed feedback" ELSE "significant disagreement",
         confidence |-> IF n = 0 THEN 9 ELSE IF n = 1 THEN 7 ELSE 5]

\* AnalyzeConflicts(coderText, critic1Text, critic2Text): each critic text is
\* scanned for the markers, a text with a hit gives one conflict entry, and
\* the number of entries gives the decision and the confidence (in tenths)
AnalyzeConflicts(coderText, critic1Text, critic2Text) ==
    LET Hit(t) == \E i \in 1..Len(t) : t[i] \in DisagreementKeywords
        conflicts == (IF Hit(critic1Text) THEN <<"critic1">> ELSE <<>>)
                     \o (IF Hit(critic2Text) THEN <<"critic2">> ELSE <<>>)
    IN  [conflicts |-> Len(conflicts),
         strategy |-> "consensus_based",
         decision |-> IF conflicts = <<>> THEN "general agreement"
                      ELSE IF Len(conflicts) = 1 THEN "mixed feedback"
                      ELSE "significant disagreement",
         confidence |-> IF conflicts = <<>> THEN 9
                        ELSE IF Len(conflicts) = 1 THEN 7 ELSE 5]

InitAnalyze ==
    /\ InitWorkflow
    /\ clients = {}
    /\ arg \in [f : {"analyze"}, coderText : {<<"code">>},
                critic1Text : AnalyzerTexts, critic2Text : AnalyzerTexts]
    /\ ret = NoFun

call_AnalyzeConflicts ==
    /\ arg.f = "analyze"
    /\ ret = NoFun
    /\ ret' = [f |-> "analyze",
               result |-> AnalyzeConflicts(arg.coderText, arg.critic1Text, arg.critic2Text)]
    /\ UNCHANGED <<storeVars, uuid, taskVars, critVars, envVars, arg>>

SpecAnalyze == InitAnalyze /\ [][call_AnalyzeConflicts]_vars

\* C32: the confidence AnalyzeConflicts answers is given by the number of
\* critic texts that contain a disagreement keyword, however many keywords a
\* text contains: 0.9 when neither does, 0.7 when exactly one does, 0.5 when
\* both do; and the strategy is "consensus_based" for every input.
C32_ConfidenceByConflicts ==
    ret # NoFun /\ ret.f = "analyze" =>
        LET texts == {t \in {<<1, arg.critic1Text>>, <<2, arg.critic2Text>>} :
                         \E i \in 1..Len(t[2]) : t[2][i] \in DisagreementKeywords}
        IN  /\ ret.result.strategy = "consensus_based"
            /\ Cardinality(texts) = 0 => ret.result.confidence = 9
            /\ Cardinality(texts) = 1 => ret.result.confidence = 7
            /\ Cardinality(texts) = 2 => ret.result.confidence = 5

\* one critic text holds two keywords and the other none: confidence 0.7
C32_Witness ==
    /\ ret # NoFun
    /\ ret.f = "analyze"
    /\ arg.critic1Text = <<"but", "wrong">>
    /\ arg.critic2Text = <<"good", "fine">>
    /\ ret.result.confidence = 7

\* C33: once start_generation has stored the session and gone past the write
\* of the request that follows it, the stored request carries the id of that
\* session in every later state, also after the workflow failed and the
\* wrapper has written the request as failed.
C33_RequestKeepsSessionId ==
    \A r \in AllRequests :
        SessionStored(r) /\ pc[r] # "s_set_request" =>
            /\ request_id[r] \in DOMAIN requests
            /\ requests[request_id[r]].session_id = session[r].id

\* C34: once the stored status of a session is completed or failed, no step
\* stores a code, a review or a ranking of that session any more, a step of a
\* critic branch that outlived its failed sibling included.
C34_NoWriteAfterEnd ==
    [][\A sid \in DOMAIN sessions :
          sessions[sid].status \in {COMPLETED, FAILED} =>
              /\ \A c \in DOMAIN codes' \ DOMAIN codes : codes'[c].session_id # sid
              /\ \A v \in DOMAIN reviews' \ DOMAIN reviews : reviews'[v].session_id # sid
              /\ \A k \in DOMAIN rankings' \ DOMAIN rankings :
                    rankings'[k].session_id # sid]_vars

\* C35: whenever a stored session that has an artifact is completed, its
\* current_code_id is the id of the artifact of the session with the highest
\* version, its critic1_review_id and critic2_review_id are the ids of stored
\* reviews of that artifact by critic 1 and critic 2, and its ranking_id is
\* the id of a stored ranking of that artifact.
C35_CompletedHoldsLastIteration ==
    \A sid \in DOMAIN sessions :
        sessions[sid].status = COMPLETED /\ CodesOf(sid) # {} =>
            LET s == sessions[sid]
                top == {c \in CodesOf(sid) :
                           \A d \in CodesOf(sid) : codes[d].version <= codes[c].version}
            IN  /\ top = {s.current_code_id}
                /\ s.critic1_review_id \in ReviewsOf(s.current_code_id, 1)
                /\ s.critic2_review_id \in ReviewsOf(s.current_code_id, 2)
                /\ s.ranking_id \in RankingsOf(s.current_code_id)

\* a session completed in its second pass: two artifacts, reviews and a
\* ranking for each
C35_Witness ==
    \E sid \in DOMAIN sessions :
        /\ sessions[sid].status = COMPLETED
        /\ sessions[sid].refinement_iterations = 1
        /\ Cardinality(CodesOf(sid)) = 2
        /\ Cardinality(RankingsIn(sid)) = 2

\* C36: in every reachable state a session has at most max_iterations
\* artifacts, at most 2 * max_iterations reviews and at most max_iterations
\* rankings in the store, whatever the model calls answer.
C36_WorkBounded ==
    \A sid \in DOMAIN sessions :
        /\ Cardinality(CodesOf(sid)) <= sessions[sid].max_iterations
        /\ Cardinality({v \in DOMAIN reviews : reviews[v].session_id = sid})
              <= 2 * sessions[sid].max_iterations
        /\ Cardinality(RankingsIn(sid)) <= sessions[sid].max_iterations

\* a session that used all its passes: max_iterations artifacts and rankings,
\* twice as many reviews
C36_Witness ==
    \E sid \in DOMAIN sessions :
        /\ Cardinality(CodesOf(sid)) = sessions[sid].max_iterations
        /\ Cardinality({v \in DOMAIN reviews : reviews[v].session_id = sid})
              = 2 * sessions[sid].max_iterations
        /\ Cardinality(RankingsIn(sid)) = sessions[sid].max_iterations

\* C37: an invocation of get_generator_response calls the model at most
\* twice; it calls it a second time exactly when the first attempt raised an
\* error that carries "429" and "quota", and then only after the backoff
\* sleep that follows the first call; and when the first error carries no
\* such marks, or the second call raises too, the call that raised is the last
\* one and the result is the error sentinel with "Generation failed".
C37_RetryOnceOnRateLimit ==
    ret # NoFun /\ ret.f = "generate" =>
        LET ev    == ret.events
            calls == {i \in 1..Len(ev) : ev[i] = "generate_content"}
        IN  /\ Cardinality(calls) \in 1..2
            /\ Cardinality(calls) = 2 <=> arg.raises /\ arg.rate_limit
            /\ \A i, j \in calls : i < j => \E k \in i + 1..j - 1 : ev[k] = "sleep"
            /\ arg.raises /\ (~arg.rate_limit \/ arg.retry_raises) =>
                  /\ ev[Len(ev)] = "generate_content"
                  /\ ret.code = ErrorSentinel
                  /\ ret.explanation = "Generation failed"
            /\ arg.raises /\ arg.rate_limit /\ ~arg.retry_raises => ret.code # ErrorSentinel

\* the first attempt hit the rate limit and the retry answered
C37_Witness ==
    /\ ret # NoFun
    /\ ret.f = "generate"
    /\ arg.raises /\ arg.rate_limit /\ ~arg.retry_raises
    /\ Len(ret.events) = 4

\* ------------------------------------------ _wait_for_gemini_rate_limit

\* a second passes
tick ==
    /\ now < MaxTime
    /\ now' = now + 1
    /\ UNCHANGED <<storeVars, uuid, taskVars, critVars, clients, request_id, emptyCodes,
                   modelFaults, storeFaults, gemini_last_request_time, waiting, released,
                   funVars>>

\* lines 92-97, and line 100 when there is nothing to wait for: the model
\* call of task r reads the clock and the time of the last request, and goes
\* to sleep for the rest of the interval or is released at once
wait_for_gemini_rate_limit(r) ==
    /\ waiting[r].at = "idle"
    /\ Len(released) + Cardinality({q \in AllRequests : waiting[q].at = "sleep"}) < MaxCalls
    /\ LET current_time == now
           time_since_last_request == current_time - gemini_last_request_time
       IN  IF time_since_last_request < gemini_min_interval
           THEN /\ waiting' = [waiting EXCEPT ![r] =
                       [at |-> "sleep",
                        until |-> current_time
                                  + (gemini_min_interval - time_since_last_request)]]
                /\ UNCHANGED <<gemini_last_request_time, released>>
           ELSE /\ gemini_last_request_time' = now
                /\ released' = Append(released, now)
                /\ UNCHANGED waiting
    /\ UNCHANGED <<storeVars, uuid, taskVars, critVars, clients, request_id, emptyCodes,
                   modelFaults, storeFaults, now, funVars>>

\* lines 98-100: asyncio.sleep(wait_time) returns, not before its time, and
\* the time of the last request is set to the clock
sleep_returns(r) ==
    /\ waiting[r].at = "sleep"
    /\ now >= waiting[r].until
    /\ gemini_last_request_time' = now
    /\ released' = Append(released, now)
    /\ waiting' = [waiting EXCEPT ![r] = [at |-> "idle", until |-> 0]]
    /\ UNCHANGED <<storeVars, uuid, taskVars, critVars, clients, request_id, emptyCodes,
                   modelFaults, storeFaults, now, funVars>>

NextRate ==
    \/ tick
    \/ \E r \in AllRequests :
          \/ wait_for_gemini_rate_limit(r)
          \/ sleep_returns(r)

SpecRate == Init /\ [][NextRate]_vars

\* C38: any two returns of _wait_for_gemini_rate_limit on the one LLMService
\* are at least gemini_min_interval seconds apart, also when the model calls
\* of two tasks are in it at the same time.
C38_ReleasesApart ==
    \A i, j \in 1..Len(released) :
        i < j => released[j] - released[i] >= gemini_min_interval

====
